---- MODULE Spec2Model ----
(***************************************************************************)
(* A model of leafo/lml: the LML compiler (parser.ts: compile and          *)
(* compileCommands), the music utilities it consults (music.ts), the song  *)
(* data model (song.ts), the auto-chord generators (auto-chords.ts) and    *)
(* the share-string codec (editor/src/compression).                        *)
(*                                                                         *)
(* JavaScript numbers that the code multiplies and divides (tick counts,   *)
(* tempo scale, beats) are modelled as exact rationals <<n, d>>, d > 0, in *)
(* lowest terms; Math.round is floor(x + 1/2).                             *)
(***************************************************************************)
EXTENDS Integers, Sequences, FiniteSets, TLC

VARIABLES
  stack,    \* compileCommands: the CompilerState of every open block, innermost last
  song,     \* the MultiTrackSong being built
  nextId,   \* SongNote.id: the next fresh Symbol()
  phase,    \* "compile" | "done" | "error" (an exception left compile)
  ncmd,     \* number of AST commands consumed so far
  last,     \* the command executed last (history)
  emitted,  \* history: <<id, track>> of every pushWithTrack call, in order
  ksv,      \* transposeKeySignature: inputs and result
  tr,       \* MultiTrackSong.transpose: source song, amount, result
  ch,       \* AutoChords: song, strategy, options, generated notes
  cx,       \* compress / decompress: tokens, bytes, decoded tokens
  gm,       \* getMeasures: the song end, the loop's locals and the measures
  mstarts,  \* history: the beat every "m" command moved the cursor to
  oc,       \* findClosestOctave: note letter, reference pitch and result
  bk        \* SongNoteList with its bucket cache, and the last matchNoteFast

vars == <<stack, song, nextId, phase, ncmd, last, emitted, ksv, tr, ch, cx, gm, mstarts, oc, bk>>

Null == "null"

\* An absent number (null / undefined) is <<>>, a present one <<v>>; an
\* absent rational is <<>>
None == <<>>

\* Bind(e, F) is F(e) with e evaluated once: x ranges over the one element
\* of {e}.  It stands for a local "const x = e".
Bind(e, F(_)) == CHOOSE r \in {F(x) : x \in {e}} : TRUE

\* ------------------------------------------------------------------
\* Exact rational arithmetic for JavaScript numbers
\* ------------------------------------------------------------------

Abs(x) == IF x < 0 THEN -x ELSE x

Min2(a, b) == IF a < b THEN a ELSE b

Max2(a, b) == IF a > b THEN a ELSE b

RECURSIVE GCD(_, _)
GCD(a, b) == IF b = 0 THEN a ELSE GCD(b, a % b)

Q(n, d) ==
  LET g == GCD(Abs(n), d)
  IN  IF n = 0 THEN <<0, 1>> ELSE <<n \div g, d \div g>>

QInt(i) == <<i, 1>>

QMul(a, b) == Q(a[1] * b[1], a[2] * b[2])

QAdd(a, b) == Q(a[1] * b[2] + b[1] * a[2], a[2] * b[2])

QSub(a, b) == Q(a[1] * b[2] - b[1] * a[2], a[2] * b[2])

\* a / b for b > 0
QDiv(a, b) == Q(a[1] * b[2], a[2] * b[1])

QLt(a, b) == a[1] * b[2] < b[1] * a[2]

QLe(a, b) == a[1] * b[2] <= b[1] * a[2]

QMin(a, b) == IF QLt(b, a) THEN b ELSE a

QFloor(a) == a[1] \div a[2]

\* Math.round: nearest integer, halves toward +infinity
QRound(a) == (2 * a[1] + a[2]) \div (2 * a[2])

QIsInt(a) == a[2] = 1

RECURSIVE Pow(_, _)
Pow(b, e) == IF e = 0 THEN 1 ELSE b * Pow(b, e - 1)

\* ------------------------------------------------------------------
\* music.ts
\* ------------------------------------------------------------------

MIDDLE_C_PITCH == 60

OCTAVE_SIZE == 12

Letters == {"C", "D", "E", "F", "G", "A", "B"}

\* OFFSETS, letter -> semitone offset from C
OFFSETS(l) ==
  CASE l = "C" -> 0 [] l = "D" -> 2 [] l = "E" -> 4 [] l = "F" -> 5
    [] l = "G" -> 7 [] l = "A" -> 9 [] l = "B" -> 11

\* OFFSETS, semitone offset -> letter, Null where the table has no entry
OffsetLetter(o) ==
  CASE o = 0 -> "C" [] o = 2 -> "D" [] o = 4 -> "E" [] o = 5 -> "F"
    [] o = 7 -> "G" [] o = 9 -> "A" [] o = 11 -> "B" [] OTHER -> Null

\* A note name "F#4" is [letter |-> "F", acc |-> 1, oct |-> 4]; acc is 1 for
\* "#", -1 for "b", 0 for none.
Note(l, a, o) == [letter |-> l, acc |-> a, oct |-> o]

\* parseNote accepts /^([A-G])(#|b)?(\d+)$/: the octave is a run of digits
ParseNoteOk(n) == n.oct >= 0

parseNote(n) == OFFSETS(n.letter) + (n.oct + 1) * OCTAVE_SIZE + n.acc

noteName(pitch, sharpen) ==
  LET octave == (pitch \div OCTAVE_SIZE) - 1
      offset == pitch - (octave + 1) * OCTAVE_SIZE
  IN  IF OffsetLetter(offset) # Null
        THEN Note(OffsetLetter(offset), 0, octave)
        ELSE IF sharpen
               THEN Note(OffsetLetter(offset - 1), 1, octave)
               ELSE Note(OffsetLetter(offset + 1), -1, octave)

addInterval(n, halfSteps) == noteName(parseNote(n) + halfSteps, TRUE)

FIFTHS_TRUNCATED == <<"F", "C", "G", "D", "A", "E", "B">>

\* Array.prototype.slice(from) / slice(0, to) on FIFTHS_TRUNCATED, as a set
\* of letters (accidentalNotes is only searched for membership)
KeySignature_accidentalNotes(count) ==
  IF count > 0
    THEN {FIFTHS_TRUNCATED[i] : i \in 1..Min2(count, 7)}
    ELSE LET from == 7 + count
             begin == IF from < 0 THEN Max2(7 + from, 0) ELSE Min2(from, 7)
         IN  {FIFTHS_TRUNCATED[i] : i \in (begin + 1)..7}

KeySignature_isSharp(count) == count > 0

KeySignature_isFlat(count) == count < 0

\* unconvertNote on a name that carries no accidental
KeySignature_unconvertNote(count, n) ==
  IF count = 0 THEN n
  ELSE IF n.letter \in KeySignature_accidentalNotes(count)
         THEN Note(n.letter, IF KeySignature_isSharp(count) THEN 1 ELSE -1, n.oct)
         ELSE n

\* The JavaScript remainder a % b for b > 0: the sign follows the dividend
JsRem(a, b) == IF a >= 0 THEN a % b ELSE -((-a) % b)

\* transposeKeySignature without the early return for whole octaves
transposeKeySignature_noOctaveReturn(currentKs, semitones) ==
  LET newKs == JsRem(JsRem(currentKs + semitones * 7, 12) + 12, 12)
  IN  IF newKs > 6 THEN newKs - 12 ELSE newKs

transposeKeySignature(currentKs, semitones) ==
  IF JsRem(semitones, 12) = 0 THEN currentKs
  ELSE LET newKs == JsRem(JsRem(currentKs + semitones * 7, 12) + 12, 12)
       IN  IF newKs > 6 THEN newKs - 12 ELSE newKs

\* ------------------------------------------------------------------
\* song.ts: SongNote, SongNoteList, MultiTrackSong
\* ------------------------------------------------------------------

\* new SongNote(note, start, duration): id is a fresh Symbol(); start and
\* duration are in beats
SongNote(id, n, start, duration) ==
  [id |-> id, note |-> n, start |-> start, duration |-> duration]

SongNoteList == [notes |-> <<>>, clefs |-> <<>>, trackName |-> Null]

\* new MultiTrackSong(): absent arrays (undefined) are the empty sequence;
\* tracks is the sparse array, a function on the indices that are set;
\* metadata is None or <<record>>
MultiTrackSong ==
  [notes |-> <<>>, tracks |-> <<>>, timeSignatures |-> <<>>,
   keySignatures |-> <<>>, strings |-> <<>>, autoChords |-> <<>>,
   metadata |-> None]

\* song.metadata?.beatsPerMeasure, 0 standing for undefined (both falsy)
BeatsPerMeasure(sg) ==
  IF sg.metadata = None THEN <<0, 1>> ELSE sg.metadata[1].beatsPerMeasure

HasTrack(sg, idx) == idx \in DOMAIN sg.tracks

\* add index idx to the sparse array
SetTrack(tracks, idx, t) ==
  [i \in (DOMAIN tracks) \cup {idx} |-> IF i = idx THEN t ELSE tracks[i]]

\* tracks.length of the sparse array
TracksLength(sg) ==
  IF DOMAIN sg.tracks = {} THEN 0
  ELSE (CHOOSE m \in DOMAIN sg.tracks : \A i \in DOMAIN sg.tracks : i <= m) + 1

\* getTrack creates the track when it is missing; the song after the call
getTrack(sg, idx) ==
  IF HasTrack(sg, idx) THEN sg
  ELSE [sg EXCEPT !.tracks = SetTrack(sg.tracks, idx, SongNoteList)]

\* Variant of pushWithTrack in which the track receives a clone of the note
pushWithTrack_cloning(sg, note, trackIdx) ==
  LET s1 == getTrack([sg EXCEPT !.notes = Append(@, note)], trackIdx)
  IN  [s1 EXCEPT !.tracks[trackIdx].notes =
         Append(@, [note EXCEPT !.id = note.id + 1000])]

pushWithTrack(sg, note, trackIdx) ==
  LET s1 == getTrack([sg EXCEPT !.notes = Append(@, note)], trackIdx)
  IN  [s1 EXCEPT !.tracks[trackIdx].notes = Append(@, note)]

\* Variant of findEmptyTrackIdx that returns the first index after the tracks
findEmptyTrackIdx_next(sg) == TracksLength(sg)

findEmptyTrackIdx(sg) == TracksLength(sg) + 1

\* SongNote.transpose: a new SongNote, id its fresh Symbol()
SongNote_transpose(note, semitones, id) ==
  SongNote(id, noteName(parseNote(note.note) + semitones, TRUE), note.start, note.duration)

\* Variant of SongNoteList.transpose that makes new notes of the same pitch
SongNoteList_transpose_samePitch(list, amount, id) ==
  IF amount = 0 THEN list
  ELSE [list EXCEPT !.notes =
          [i \in 1..Len(list.notes) |-> [list.notes[i] EXCEPT !.id = id + i - 1]]]

\* SongNoteList.transpose on a track: "this" for amount 0, else a new list
\* of transposed notes that shares clefs and trackName; id is the id of the
\* first note it constructs
SongNoteList_transpose(list, amount, id) ==
  IF amount = 0 THEN list
  ELSE [list EXCEPT !.notes =
          [i \in 1..Len(list.notes) |-> SongNote_transpose(list.notes[i], amount, id + i - 1)]]

MinOf(S) == CHOOSE m \in S : \A x \in S : m <= x

\* Variant of the forEach of MultiTrackSong.transposeNotesInto in which the
\* flat list receives its own transposed copies of the source's flat notes
RECURSIVE TransposeTracks_cloning(_, _, _, _, _)
TransposeTracks_cloning(sg, target, amount, id, idxs) ==
  IF idxs = {} THEN target
  ELSE Bind(MinOf(idxs), LAMBDA idx :
       Bind(SongNoteList_transpose(sg.tracks[idx], amount, id), LAMBDA transposedTrack :
       Bind([target EXCEPT
               !.tracks = SetTrack(@, idx, transposedTrack),
               !.notes = @ \o [i \in 1..Len(transposedTrack.notes) |->
                                SongNote_transpose(sg.tracks[idx].notes[i], amount,
                                                   id + 1000 + i - 1)]],
            LAMBDA t :
         TransposeTracks_cloning(sg, t, amount, id + Len(transposedTrack.notes),
                                 idxs \ {idx}))))

\* MultiTrackSong.transposeNotesInto: this.tracks.forEach over the indices
\* idxs still to visit, in ascending order
RECURSIVE TransposeTracks(_, _, _, _, _)
TransposeTracks(sg, target, amount, id, idxs) ==
  IF idxs = {} THEN target
  ELSE Bind(MinOf(idxs), LAMBDA idx :
       Bind(SongNoteList_transpose(sg.tracks[idx], amount, id), LAMBDA transposedTrack :
       Bind([target EXCEPT
               !.tracks = SetTrack(@, idx, transposedTrack),
               !.notes = @ \o [i \in 1..Len(transposedTrack.notes) |->
                                transposedTrack.notes[i]]],
            LAMBDA t :
         TransposeTracks(sg, t, amount, id + Len(transposedTrack.notes),
                         idxs \ {idx}))))

MultiTrackSong_transposeNotesInto(sg, target, amount, id) ==
  TransposeTracks(sg, target, amount, id, DOMAIN sg.tracks)

\* SongNoteList.transpose on a MultiTrackSong
MultiTrackSong_transpose(sg, amount, id) ==
  IF amount = 0 THEN sg
  ELSE Bind(MultiTrackSong_transposeNotesInto(sg, MultiTrackSong, amount, id), LAMBDA t :
         [t EXCEPT
            !.metadata =
               IF sg.metadata = None THEN None
               ELSE <<[sg.metadata[1] EXCEPT
                         !.keySignature = transposeKeySignature(@, amount)]>>,
            !.keySignatures =
               [i \in 1..Len(sg.keySignatures) |->
                  <<sg.keySignatures[i][1],
                    transposeKeySignature(sg.keySignatures[i][2], amount)>>],
            !.timeSignatures = sg.timeSignatures,
            !.strings = sg.strings,
            !.autoChords = sg.autoChords])

\* ------------------------------------------------------------------
\* parser.ts: the compiler
\* ------------------------------------------------------------------

TICKS_PER_BEAT == 48

Beats(ticks) == QDiv(ticks, QInt(TICKS_PER_BEAT))

dottedMultiplier(dots) == Q(Pow(2, dots + 1) - 1, Pow(2, dots))

\* findClosestOctave throws when parseNote rejects one of the three candidate
\* names, which happens when a candidate octave is negative
findClosestOctaveThrows(referencePitch) ==
  (referencePitch \div OCTAVE_SIZE) - 1 - 1 < 0

\* Variant of findClosestOctave that tries the octaves from the lowest up
findClosestOctave_lowestFirst(noteLetter, referencePitch) ==
  LET refOctave == (referencePitch \div OCTAVE_SIZE) - 1
      at(o) == parseNote([noteLetter EXCEPT !.oct = o])
      dist(o) == Abs(at(o) - referencePitch)
      best1 == IF dist(refOctave) < dist(refOctave - 1)
                 THEN refOctave ELSE refOctave - 1
      best2 == IF dist(refOctave + 1) < dist(best1) THEN refOctave + 1 ELSE best1
  IN  [noteLetter EXCEPT !.oct = best2]

\* noteLetter carries the letter and an explicit "#" or "b" (acc), no octave
findClosestOctave(noteLetter, referencePitch) ==
  LET refOctave == (referencePitch \div OCTAVE_SIZE) - 1
      at(o) == parseNote([noteLetter EXCEPT !.oct = o])
      dist(o) == Abs(at(o) - referencePitch)
      belowOctave == refOctave - 1
      aboveOctave == refOctave + 1
      best1 == IF dist(belowOctave) < dist(refOctave) THEN belowOctave ELSE refOctave
      best2 == IF dist(aboveOctave) < dist(best1) THEN aboveOctave ELSE best1
  IN  [noteLetter EXCEPT !.oct = best2]

\* compile(): the CompilerState before the first command
InitialState(defaultOctave) ==
  [startPosition |-> QInt(0),
   position |-> QInt(0),
   ticksPerNote |-> QInt(TICKS_PER_BEAT),
   ticksPerMeasure |-> QInt(TICKS_PER_BEAT * 4),
   timeScale |-> QInt(1),
   keySignature |-> 0,
   currentTrack |-> 0,
   lastMeasure |-> -1,
   nextMeasureStart |-> QInt(0),
   explicitMeasureUsed |-> FALSE,
   lastNotePitch |-> None,
   defaultPitch |-> (defaultOctave + 1) * OCTAVE_SIZE]

\* The result of one command: the state, the song, and whether it threw
Res(st, sg) == [st |-> st, song |-> sg, err |-> FALSE]

Throw(st, sg) == [st |-> st, song |-> sg, err |-> TRUE]

\* case "restoreStartPosition"
RestoreStartPosition(st, sg) ==
  Res([st EXCEPT !.position = st.startPosition], sg)

\* Variant of BlockState that keeps the parent's startPosition
BlockState_keepStart(st) == st

\* Variant of BlockExit that also copies the child's tempo scale and key
\* signature into the parent
BlockExit_leaking(st, blockState) ==
  LET s1 == [st EXCEPT !.position = blockState.position,
                       !.lastNotePitch = blockState.lastNotePitch,
                       !.timeScale = blockState.timeScale,
                       !.keySignature = blockState.keySignature]
  IN  IF blockState.ticksPerMeasure # st.ticksPerMeasure
        THEN LET measureStart == QSub(s1.nextMeasureStart, s1.ticksPerMeasure)
             IN  [s1 EXCEPT
                    !.nextMeasureStart = QAdd(measureStart, blockState.ticksPerMeasure),
                    !.ticksPerMeasure = blockState.ticksPerMeasure]
        ELSE s1

\* case "block", before the recursive call: the child state
BlockState(st) == [st EXCEPT !.startPosition = st.position]

\* case "block", after the recursive call: the parent state
BlockExit(st, blockState) ==
  LET s1 == [st EXCEPT !.position = blockState.position,
                       !.lastNotePitch = blockState.lastNotePitch]
  IN  IF blockState.ticksPerMeasure # st.ticksPerMeasure
        THEN LET measureStart == QSub(s1.nextMeasureStart, s1.ticksPerMeasure)
             IN  [s1 EXCEPT
                    !.nextMeasureStart = QAdd(measureStart, blockState.ticksPerMeasure),
                    !.ticksPerMeasure = blockState.ticksPerMeasure]
        ELSE s1

\* case "halfTime"
HalfTime(st, sg, count) ==
  Res([st EXCEPT !.timeScale = QMul(@, QInt(Pow(2, count)))], sg)

\* case "doubleTime"
DoubleTime(st, sg, count) ==
  Res([st EXCEPT !.timeScale = QMul(@, Q(1, Pow(2, count)))], sg)

\* case "tripleTime"
TripleTime(st, sg, count) ==
  Res([st EXCEPT !.timeScale = QMul(@, Q(1, Pow(3, count)))], sg)

\* Variant of case "measure" in which the auto-increment form never moves
\* the cursor backward
Measure_max(st, sg, measure) ==
  IF measure # None
    THEN Res([st EXCEPT
                !.lastMeasure = measure[1],
                !.position = QMul(QInt(measure[1]), st.ticksPerMeasure),
                !.nextMeasureStart = QMul(QInt(measure[1] + 1), st.ticksPerMeasure),
                !.explicitMeasureUsed = TRUE], sg)
    ELSE LET p == IF QLt(st.nextMeasureStart, st.position)
                    THEN st.position ELSE st.nextMeasureStart
         IN  Res([st EXCEPT
                    !.lastMeasure = @ + 1,
                    !.position = p,
                    !.nextMeasureStart = QAdd(p, st.ticksPerMeasure),
                    !.explicitMeasureUsed = FALSE], sg)

\* case "measure"; measure is None for the auto-increment form
Measure(st, sg, measure) ==
  IF measure # None
    THEN Res([st EXCEPT
                !.lastMeasure = measure[1],
                !.position = QMul(QInt(measure[1]), st.ticksPerMeasure),
                !.nextMeasureStart = QMul(QInt(measure[1] + 1), st.ticksPerMeasure),
                !.explicitMeasureUsed = TRUE], sg)
    ELSE Res([st EXCEPT
                !.lastMeasure = @ + 1,
                !.position = st.nextMeasureStart,
                !.nextMeasureStart = QAdd(st.nextMeasureStart, st.ticksPerMeasure),
                !.explicitMeasureUsed = FALSE], sg)

\* case "setTrack"
SetTrackCmd(st, sg, track) == Res([st EXCEPT !.currentTrack = track], sg)

\* case "clef"
Clef(st, sg, clef) ==
  LET s1 == getTrack(sg, st.currentTrack)
  IN  Res(st, [s1 EXCEPT !.tracks[st.currentTrack].clefs =
                 Append(@, <<Beats(st.position), clef>>)])

\* Variant of DurationTicks that leaves out the "*" or "/" duration
DurationTicks_noDuration(st, opts) ==
  LET d0 == QMul(st.ticksPerNote, st.timeScale)
  IN  IF opts.dots # 0 THEN QMul(d0, dottedMultiplier(opts.dots)) ELSE d0

\* The duration in ticks of a note or rest, before rounding.  opts.duration
\* is a rational or None, opts.dots a count (0: none); a duration of 0 is
\* falsy and leaves the base duration alone.
DurationTicks(st, opts) ==
  LET d0 == QMul(st.ticksPerNote, st.timeScale)
      d1 == IF opts.duration # None /\ opts.duration[1] # 0
              THEN QMul(d0, opts.duration) ELSE d0
  IN  IF opts.dots # 0 THEN QMul(d1, dottedMultiplier(opts.dots)) ELSE d1

\* case "note", lines "if (noteOpts.sharp)" to "unconvertNote": the full
\* note name.  name is [letter, oct], oct None for a relative note; opts.acc
\* is "none", "sharp", "flat" or "natural".
ResolveName(st, name, opts) ==
  LET hasAccidental == opts.acc # "none"
      acc == CASE opts.acc = "sharp" -> 1 [] opts.acc = "flat" -> -1 [] OTHER -> 0
      n1 == Note(name.letter, acc, IF name.oct = None THEN 0 ELSE name.oct[1])
      referencePitch ==
        IF st.lastNotePitch # None THEN st.lastNotePitch[1] ELSE st.defaultPitch
      n2 == IF name.oct = None THEN findClosestOctave(n1, referencePitch) ELSE n1
  IN  IF hasAccidental THEN n2
      ELSE KeySignature_unconvertNote(st.keySignature, n2)

\* Variant of NoteCmd that advances the cursor for every note
NoteCmd_alwaysAdvance(st, sg, id, name, opts) ==
  LET noteNm == ResolveName(st, name, opts)
      durationTicks == QInt(QRound(DurationTicks(st, opts)))
      startTicks == IF opts.start # None
                      THEN QInt(opts.start[1] * TICKS_PER_BEAT)
                      ELSE st.position
      s1 == [st EXCEPT !.position = QAdd(@, durationTicks),
                       !.lastNotePitch = <<parseNote(noteNm)>>]
  IN  Res(s1, pushWithTrack(sg,
            SongNote(id, noteNm, Beats(startTicks), Beats(durationTicks)),
            st.currentTrack))

\* case "note"; id is the Symbol() of the SongNote it constructs
NoteCmd(st, sg, id, name, opts) ==
  LET referencePitch ==
        IF st.lastNotePitch # None THEN st.lastNotePitch[1] ELSE st.defaultPitch
      noteNm == ResolveName(st, name, opts)
      durationTicks == QInt(QRound(DurationTicks(st, opts)))
      explicit == opts.start # None
      startTicks == IF explicit THEN QInt(opts.start[1] * TICKS_PER_BEAT)
                    ELSE st.position
      s1 == [st EXCEPT
               !.position = IF explicit THEN @ ELSE QAdd(@, durationTicks),
               !.lastNotePitch = <<parseNote(noteNm)>>]
  IN  IF name.oct = None /\ findClosestOctaveThrows(referencePitch)
        THEN Throw(st, sg)
        ELSE Res(s1, pushWithTrack(sg,
                   SongNote(id, noteNm, Beats(startTicks), Beats(durationTicks)),
                   st.currentTrack))

\* case "rest"; a start of 0 is falsy
RestCmd(st, sg, opts) ==
  IF opts.start # None /\ opts.start[1] # 0
    THEN Res(st, sg)
    ELSE Res([st EXCEPT !.position =
                QAdd(@, QInt(QRound(DurationTicks(st, opts))))], sg)

\* case "keySignature"
KeySignatureCmd(st, sg, count) ==
  Res([st EXCEPT !.keySignature = count],
      [sg EXCEPT !.keySignatures = Append(@, <<Beats(st.position), count>>)])

\* case "timeSignature"
TimeSignatureCmd(st, sg, perBeat, noteValue) ==
  LET tpn == QMul(QInt(TICKS_PER_BEAT), Q(4, noteValue))
  IN  Res([st EXCEPT !.ticksPerNote = tpn,
                     !.ticksPerMeasure = QMul(tpn, QInt(perBeat))],
          [sg EXCEPT !.timeSignatures = Append(@, <<Beats(st.position), perBeat>>)])

\* case "macro"; chord is what AutoChords.coerceChord returned, None for
\* a name it rejects
MacroCmd(st, sg, chord) ==
  IF chord # None
    THEN Res(st, [sg EXCEPT !.autoChords = Append(@, <<Beats(st.position), chord>>)])
    ELSE Res(st, sg)

\* case "string"
StringCmd(st, sg, text) ==
  Res(st, [sg EXCEPT !.strings = Append(@, <<Beats(st.position), text>>)])

\* ------------------------------------------------------------------
\* music.ts: Chord
\* ------------------------------------------------------------------

ChordShapeNames ==
  {"M", "m", "dim", "dimM7", "dim7", "aug", "augM7", "M6", "m6", "M7", "7",
   "m7", "m7b5", "mM7", "Q", "Qb4"}

\* Chord.SHAPES
Chord_SHAPES(shape) ==
  CASE shape = "M" -> <<4, 3>> [] shape = "m" -> <<3, 4>>
    [] shape = "dim" -> <<3, 3>> [] shape = "dimM7" -> <<3, 3, 5>>
    [] shape = "dim7" -> <<3, 3, 3>> [] shape = "aug" -> <<4, 4>>
    [] shape = "augM7" -> <<4, 4, 3>> [] shape = "M6" -> <<4, 3, 2>>
    [] shape = "m6" -> <<3, 4, 2>> [] shape = "M7" -> <<4, 3, 4>>
    [] shape = "7" -> <<4, 3, 3>> [] shape = "m7" -> <<3, 4, 3>>
    [] shape = "m7b5" -> <<3, 3, 4>> [] shape = "mM7" -> <<3, 4, 4>>
    [] shape = "Q" -> <<5, 5>> [] shape = "Qb4" -> <<4, 5>>

\* Scale.isFlat for a root [letter, acc]: the root's index in
\* KeySignature.FIFTHS (F C G D A E B Gb Db Ab Eb Bb), -1 for a sharp root,
\* whose "real root" is never in the table
Scale_isFlat(root) ==
  LET idx == CASE root.acc = 0 /\ root.letter = "F" -> 0
               [] root.acc = 0 /\ root.letter = "C" -> 1
               [] root.acc = 0 /\ root.letter = "G" -> 2
               [] root.acc = 0 /\ root.letter = "D" -> 3
               [] root.acc = 0 /\ root.letter = "A" -> 4
               [] root.acc = 0 /\ root.letter = "E" -> 5
               [] root.acc = 0 /\ root.letter = "B" -> 6
               [] root.acc = -1 /\ root.letter = "G" -> 7
               [] root.acc = -1 /\ root.letter = "D" -> 8
               [] root.acc = -1 /\ root.letter = "A" -> 9
               [] root.acc = -1 /\ root.letter = "E" -> 10
               [] root.acc = -1 /\ root.letter = "B" -> 11
               [] OTHER -> -1
  IN  idx < 1 \/ idx > 6

\* Chord.notes(note, chordName): Scale.getRange from the root, one note per
\* interval of the shape plus the root
Chord_notes(n, shape) ==
  LET intervals == Chord_SHAPES(shape)
      sharpen == ~Scale_isFlat([letter |-> n.letter, acc |-> n.acc])
      RECURSIVE pitchAt(_)
      pitchAt(i) == IF i = 1 THEN parseNote(n)
                    ELSE pitchAt(i - 1) + intervals[i - 1]
  IN  <<noteName(pitchAt(1), sharpen)>> \o
      [i \in 1..Len(intervals) |-> noteName(pitchAt(i + 1), sharpen)]

\* ------------------------------------------------------------------
\* auto-chords.ts
\* ------------------------------------------------------------------

Strategies == {"Root", "Triad", "Root5", "Arp", "BossaNova"}

RECURSIVE Reverse(_)
Reverse(s) == IF s = <<>> THEN <<>> ELSE Append(Reverse(Tail(s)), Head(s))

\* findChordBlocks: the loop over the reversed markers; chordsUntil is None
\* or a beat
RECURSIVE ChordBlocksLoop(_, _, _)
ChordBlocksLoop(chords, beatsPerMeasure, chordsUntil) ==
  IF chords = <<>> THEN <<>>
  ELSE LET position == Head(chords)[1]
           measureEnd ==
             QMul(QInt(QFloor(QDiv(position, beatsPerMeasure)) + 1), beatsPerMeasure)
           stop == IF chordsUntil # None THEN QMin(measureEnd, chordsUntil)
                   ELSE measureEnd
       IN  IF QLe(stop, position)
             THEN ChordBlocksLoop(Tail(chords), beatsPerMeasure, chordsUntil)
             ELSE <<[start |-> position, stop |-> stop, chord |-> Head(chords)[2]]>>
                    \o ChordBlocksLoop(Tail(chords), beatsPerMeasure, position)

\* findChordBlocks throws when beatsPerMeasure is falsy
findChordBlocksThrows(sg) == BeatsPerMeasure(sg)[1] = 0

findChordBlocks(sg) ==
  Reverse(ChordBlocksLoop(Reverse(sg.autoChords), BeatsPerMeasure(sg), None))

\* SongNote.inRange
inRange(n, min, max) ==
  ~QLe(QAdd(n.start, n.duration), min) /\ ~QLe(max, n.start)

minPitchInRange(sg, options, start, stop) ==
  MinOf({MIDDLE_C_PITCH + 5} \cup
        {parseNote(sg.notes[i].note) :
           i \in {j \in DOMAIN sg.notes : inRange(sg.notes[j], start, stop)}})
    - options.chordMinSpacing

\* rootBelow; name is [letter, acc]
rootBelow(name, maxPitch) ==
  LET rootPitch == parseNote(Note(name.letter, name.acc, 0))
  IN  noteName((((maxPitch - 1) - rootPitch) \div 12) * 12 + rootPitch, TRUE)

\* inDivisions: the sequence of <<left, right, k>> the callback is given
RECURSIVE DivisionsFrom(_, _, _, _)
DivisionsFrom(left, stop, chunkSize, k) ==
  Bind(QMin(stop, QAdd(left, chunkSize)), LAMBDA right :
    IF QLe(stop, right)
      THEN <<<<left, right, k>>>>
      ELSE Bind(QAdd(left, chunkSize), LAMBDA next :
             <<<<left, right, k>>>> \o DivisionsFrom(next, stop, chunkSize, k + 1)))

inDivisions(sg, start, stop, count) ==
  LET m == BeatsPerMeasure(sg)
      bpm == IF m[1] # 0 THEN m ELSE QInt(4)
  IN  DivisionsFrom(start, stop, QDiv(bpm, QInt(Pow(2, count - 1))), 0)

\* A generated note before it is given its id
GenNote(n, start, duration) == [note |-> n, start |-> start, duration |-> duration]

\* options.rate || 1
Rate(options) == IF options.rate # 0 THEN options.rate ELSE 1

\* RootAutoChords.notesForChord
Root_notesForChord(sg, options, root, shape, blockStart, blockStop) ==
  Bind(minPitchInRange(sg, options, blockStart, blockStop), LAMBDA maxPitch :
  Bind(inDivisions(sg, blockStart, blockStop, Rate(options)), LAMBDA divs :
  Bind(rootBelow(root, maxPitch), LAMBDA chordRoot :
    [i \in DOMAIN divs |->
       GenNote(chordRoot, divs[i][1], QSub(divs[i][2], divs[i][1]))])))

\* TriadAutoChords.notesForChord
Triad_notesForChord(sg, options, root, shape, blockStart, blockStop) ==
  Bind(minPitchInRange(sg, options, blockStart, blockStop), LAMBDA maxPitch :
  Bind(Chord_notes(rootBelow(root, maxPitch), shape), LAMBDA chordNotes :
  Bind(inDivisions(sg, blockStart, blockStop, Rate(options)), LAMBDA divs :
    [n \in 1..(Len(divs) * Len(chordNotes)) |->
       LET i == ((n - 1) \div Len(chordNotes)) + 1
           j == ((n - 1) % Len(chordNotes)) + 1
       IN  GenNote(chordNotes[j], divs[i][1], QSub(divs[i][2], divs[i][1]))])))

\* Root5AutoChords.notesForChord
Root5_notesForChord(sg, options, root, shape, blockStart, blockStop) ==
  Bind(minPitchInRange(sg, options, blockStart, blockStop), LAMBDA maxPitch :
  Bind(rootBelow(root, maxPitch), LAMBDA chordRoot0 :
  Bind(Chord_notes(chordRoot0, shape), LAMBDA chordNotes0 :
  Bind(IF parseNote(chordNotes0[3]) > maxPitch
         THEN Chord_notes(addInterval(chordRoot0, -OCTAVE_SIZE), shape)
         ELSE chordNotes0, LAMBDA chordNotes :
  Bind(inDivisions(sg, blockStart, blockStop, 1 + Rate(options)), LAMBDA divs :
    LET m == BeatsPerMeasure(sg)
        bpm == IF m[1] # 0 THEN m ELSE QInt(2)
    IN  [i \in DOMAIN divs |->
           GenNote(IF QIsInt(QDiv(QInt(divs[i][3]), bpm))
                     THEN chordNotes[1] ELSE chordNotes[3],
                   divs[i][1], QSub(divs[i][2], divs[i][1]))])))))

\* ArpAutoChords.notesForChord: the notes, then the loop that shifts every
\* note down by octaves until none is at or above maxPitch
Arp_notesForChord(sg, options, root, shape, blockStart, blockStop) ==
  Bind(minPitchInRange(sg, options, blockStart, blockStop), LAMBDA maxPitch :
  Bind(Chord_notes(rootBelow(root, maxPitch), shape), LAMBDA chordNotes :
  Bind(SelectSeq(inDivisions(sg, blockStart, blockStop, 3), LAMBDA d : d[3] <= 3),
       LAMBDA divs :
    LET pick(k) == CASE k = 0 -> chordNotes[1]
                     [] k = 1 -> chordNotes[2]
                     [] k = 2 -> IF Len(chordNotes) >= 4 THEN chordNotes[4]
                                 ELSE chordNotes[3]
                     [] k = 3 -> chordNotes[2]
    IN  Bind(MinOf({-parseNote(pick(divs[i][3])) : i \in DOMAIN divs}), LAMBDA top :
          LET octaves == IF -top >= maxPitch
                           THEN ((-top - maxPitch) \div 12) + 1 ELSE 0
          IN  [i \in DOMAIN divs |->
                 GenNote(IF octaves = 0 THEN pick(divs[i][3])
                         ELSE noteName(parseNote(pick(divs[i][3])) - 12 * octaves, TRUE),
                         divs[i][1], QSub(divs[i][2], divs[i][1]))]))))

\* BossaNovaAutoChords.notesForChord
BossaNova_notesForChord(sg, options, root, shape, blockStart, blockStop) ==
  Bind(minPitchInRange(sg, options, blockStart, blockStop), LAMBDA maxPitch :
  Bind(Chord_notes(rootBelow(root, maxPitch), shape), LAMBDA chordNotes :
  Bind(SelectSeq(inDivisions(sg, blockStart, blockStop, 3), LAMBDA d : d[3] <= 3),
       LAMBDA divs :
    LET swap == parseNote(chordNotes[3]) >= maxPitch
        one == IF swap THEN noteName(parseNote(chordNotes[3]) - 12, TRUE)
               ELSE chordNotes[1]
        two == IF swap THEN chordNotes[1] ELSE chordNotes[3]
        d(i) == QDiv(QSub(divs[i][2], divs[i][1]), QInt(2))
        gen(i) == CASE divs[i][3] = 0 -> GenNote(one, divs[i][1], QMul(d(i), QInt(3)))
                    [] divs[i][3] = 1 -> GenNote(one, QAdd(divs[i][1], d(i)), d(i))
                    [] divs[i][3] = 2 -> GenNote(two, divs[i][1], QMul(d(i), QInt(3)))
                    [] divs[i][3] = 3 -> GenNote(two, QAdd(divs[i][1], d(i)), d(i))
    IN  [i \in DOMAIN divs |-> gen(i)])))

\* notesForChord of the strategy's class
notesForChord(strategy, sg, options, root, shape, blockStart, blockStop) ==
  CASE strategy = "Root" ->
         Root_notesForChord(sg, options, root, shape, blockStart, blockStop)
    [] strategy = "Triad" ->
         Triad_notesForChord(sg, options, root, shape, blockStart, blockStop)
    [] strategy = "Root5" ->
         Root5_notesForChord(sg, options, root, shape, blockStart, blockStop)
    [] strategy = "Arp" ->
         Arp_notesForChord(sg, options, root, shape, blockStart, blockStop)
    [] strategy = "BossaNova" ->
         BossaNova_notesForChord(sg, options, root, shape, blockStart, blockStop)

\* addChords, first loop: the notes of every block, in block order
RECURSIVE NotesOfBlocks(_, _, _, _)
NotesOfBlocks(strategy, sg, options, blocks) ==
  IF blocks = <<>> THEN <<>>
  ELSE Bind(notesForChord(strategy, sg, options, Head(blocks).chord[1],
                          Head(blocks).chord[2], Head(blocks).start, Head(blocks).stop),
            LAMBDA toAdd :
              [i \in 1..Len(toAdd) |-> toAdd[i]]
                \o NotesOfBlocks(strategy, sg, options, Tail(blocks)))

NotesToAdd(strategy, sg, options) ==
  Bind(findChordBlocks(sg), LAMBDA blocks : NotesOfBlocks(strategy, sg, options, blocks))

\* addChords, second loop: every note is pushed with the new track
RECURSIVE PushAll(_, _, _, _)
PushAll(sg, notes, trackId, id) ==
  IF notes = <<>> THEN sg
  ELSE Bind(pushWithTrack(sg,
              SongNote(id, Head(notes).note, Head(notes).start, Head(notes).duration),
              trackId),
            LAMBDA pushed : PushAll(pushed, Tail(notes), trackId, id + 1))

\* addChords; id is the id of the first SongNote it constructs
addChords(strategy, sg, options, id) ==
  Bind(NotesToAdd(strategy, sg, options), LAMBDA notesToAdd :
    Bind(findEmptyTrackIdx(sg), LAMBDA trackId :
      Bind(getTrack(PushAll(sg, notesToAdd, trackId, id), trackId), LAMBDA s1 :
        [s1 EXCEPT !.tracks[trackId].trackName = "Autochords"])))

\* Chord.notes throws on a root whose octave is negative
Chord_notesThrows(n) == n.oct < 0

\* addChords throws when findChordBlocks does, or when a strategy hands
\* Chord.notes a root below octave 0 or a shape whose SHAPES entry is no
\* array ("[...intervals]" of an inherited method is a TypeError)
addChordsThrows(strategy, sg, options) ==
  \/ findChordBlocksThrows(sg)
  \/ /\ strategy # "Root"
     /\ LET blocks == findChordBlocks(sg)
        IN  \E b \in DOMAIN blocks :
              LET maxPitch == minPitchInRange(sg, options, blocks[b].start, blocks[b].stop)
                  chordRoot == rootBelow(blocks[b].chord[1], maxPitch)
              IN  \/ blocks[b].chord[2] \notin ChordShapeNames
                  \/ Chord_notesThrows(chordRoot)
                  \/ /\ strategy = "Root5"
                     /\ parseNote(Chord_notes(chordRoot, blocks[b].chord[2])[3]) > maxPitch
                     /\ Chord_notesThrows(addInterval(chordRoot, -OCTAVE_SIZE))

\* ------------------------------------------------------------------
\* parser.ts: compile(), after compileCommands returns
\* ------------------------------------------------------------------

\* song.metadata (frontmatter is not modelled)
Metadata(st) ==
  <<[keySignature |-> st.keySignature,
     beatsPerMeasure |-> Beats(st.ticksPerMeasure)]>>

\* the default 4/4 entry is put in front unless an entry at beat 0 exists
DefaultTimeSignature(sg) ==
  IF sg.timeSignatures = <<>> \/ sg.timeSignatures[1][1][1] > 0
    THEN [sg EXCEPT !.timeSignatures = <<<<QInt(0), 4>>>> \o @]
    ELSE sg

\* settings is {} when compile is called without options
DefaultSettings == [rate |-> 0, chordMinSpacing |-> 0]

\* compile(), from "song.metadata =" to "return song", called without
\* options: AutoChords.defaultChords is BossaNovaAutoChords
CompileEnd(st, sg, id) ==
  LET s1 == DefaultTimeSignature([sg EXCEPT !.metadata = Metadata(st)])
  IN  IF s1.autoChords = <<>> THEN [song |-> s1, err |-> FALSE]
      ELSE IF addChordsThrows("BossaNova", s1, DefaultSettings)
             THEN [song |-> s1, err |-> TRUE]
             ELSE [song |-> addChords("BossaNova", s1, DefaultSettings, id),
                   err |-> FALSE]

\* ------------------------------------------------------------------
\* Specification Spec: compile() driven over the commands of an AST.
\* The recursion of compileCommands is the stack of CompilerStates: a
\* "block" command pushes the child state, the end of its command list
\* pops it.
\* ------------------------------------------------------------------

\* the number of commands of the AST
MaxCmds == 3

\* opts?.defaultOctave ?? 4
DefaultOctave == 4

Opts(duration, dots, start, acc) ==
  [duration |-> duration, dots |-> dots, start |-> start, acc |-> acc]

NoOpts == Opts(None, 0, None, "none")

Name(letter, oct) == [letter |-> letter, oct |-> oct]

\* the notes of the ASTs explored: c, e, g, b4, c0, "c/2.", "c+@1", "c@0"
NoteInputs ==
  {<<Name("C", None), NoOpts>>, <<Name("E", None), NoOpts>>,
   <<Name("G", None), NoOpts>>,
   <<Name("B", <<4>>), NoOpts>>, <<Name("C", <<0>>), NoOpts>>,
   <<Name("C", None), Opts(Q(1, 2), 1, None, "none")>>,
   <<Name("C", None), Opts(None, 0, <<1>>, "sharp")>>,
   <<Name("C", None), Opts(None, 0, <<0>>, "none")>>}

\* r, "r@1", "r@0", "r/2."
RestInputs ==
  {NoOpts, Opts(None, 0, <<1>>, "none"), Opts(None, 0, <<0>>, "none"),
   Opts(Q(1, 2), 1, None, "none")}

\* ks-6, ks-2, ks3
KeyInputs == {-6, -2, 3}

\* ts3/4, ts6/8, ts1/5
TimeInputs == {<<3, 4>>, <<6, 8>>, <<1, 5>>}

\* m, m1
MeasureInputs == {None, <<1>>}

\* $C and a macro coerceChord rejects
MacroInputs == {<<[letter |-> "C", acc |-> 0], "M">>, None}

Top == stack[Len(stack)]

Running == phase = "compile" /\ ncmd < MaxCmds

\* One command executed on the innermost state
Exec(r, l) ==
  /\ ncmd' = ncmd + 1
  /\ last' = l
  /\ IF r.err
       THEN /\ phase' = "error"
            /\ UNCHANGED <<stack, song>>
       ELSE /\ stack' = [stack EXCEPT ![Len(stack)] = r.st]
            /\ song' = r.song
            /\ UNCHANGED phase
  /\ UNCHANGED <<ksv, tr, ch, cx, gm, oc, bk>>

Init ==
  /\ stack = <<InitialState(DefaultOctave)>>
  /\ song = MultiTrackSong
  /\ nextId = 1
  /\ phase = "compile"
  /\ ncmd = 0
  /\ last = [op |-> "start"]
  /\ emitted = <<>>
  /\ ksv = None
  /\ tr = None
  /\ ch = None
  /\ cx = None
  /\ gm = None
  /\ mstarts = <<>>
  /\ oc = None
  /\ bk = None

DoRestore ==
  /\ Running
  /\ Exec(RestoreStartPosition(Top, song), [op |-> "restore"])
  /\ UNCHANGED <<nextId, emitted, mstarts>>

BlockOpen ==
  /\ Running
  /\ stack' = Append(stack, BlockState(Top))
  /\ ncmd' = ncmd + 1
  /\ last' = [op |-> "blockOpen"]
  /\ UNCHANGED <<song, nextId, phase, emitted, ksv, tr, ch, cx, gm, mstarts, oc, bk>>

BlockClose ==
  /\ phase = "compile"
  /\ Len(stack) > 1
  /\ stack' = [SubSeq(stack, 1, Len(stack) - 1) EXCEPT
                 ![Len(stack) - 1] = BlockExit(stack[Len(stack) - 1], Top)]
  /\ last' = [op |-> "blockClose", parent |-> stack[Len(stack) - 1], child |-> Top]
  /\ UNCHANGED <<song, nextId, phase, ncmd, emitted, ksv, tr, ch, cx, gm, mstarts, oc, bk>>

DoHalfTime ==
  /\ Running
  /\ Exec(HalfTime(Top, song, 1), [op |-> "halfTime"])
  /\ UNCHANGED <<nextId, emitted, mstarts>>

DoDoubleTime ==
  /\ Running
  /\ Exec(DoubleTime(Top, song, 1), [op |-> "doubleTime"])
  /\ UNCHANGED <<nextId, emitted, mstarts>>

DoTripleTime ==
  /\ Running
  /\ Exec(TripleTime(Top, song, 1), [op |-> "tripleTime"])
  /\ UNCHANGED <<nextId, emitted, mstarts>>

DoMeasure ==
  /\ Running
  /\ \E m \in MeasureInputs :
       Exec(Measure(Top, song, m), [op |-> "measure", auto |-> m = None, before |-> Top])
  /\ mstarts' = Append(mstarts, Beats(stack'[Len(stack)].position))
  /\ UNCHANGED <<nextId, emitted>>

DoSetTrack ==
  /\ Running
  /\ Exec(SetTrackCmd(Top, song, 1), [op |-> "setTrack"])
  /\ UNCHANGED <<nextId, emitted, mstarts>>

DoClef ==
  /\ Running
  /\ Exec(Clef(Top, song, "g"), [op |-> "clef"])
  /\ UNCHANGED <<nextId, emitted, mstarts>>

DoNote ==
  /\ Running
  /\ \E in \in NoteInputs :
       LET r == NoteCmd(Top, song, nextId, in[1], in[2])
       IN  /\ Exec(r, [op |-> "note", rel |-> in[1].oct = None,
                       prev |-> Top.lastNotePitch, threw |-> r.err,
                       opts |-> in[2], before |-> Top, id |-> nextId])
           /\ emitted' = IF r.err THEN emitted
                         ELSE Append(emitted, <<nextId, Top.currentTrack>>)
  /\ nextId' = nextId + 1
  /\ UNCHANGED mstarts

DoRest ==
  /\ Running
  /\ \E o \in RestInputs :
       Exec(RestCmd(Top, song, o), [op |-> "rest", opts |-> o, before |-> Top,
             notes |-> Len(song.notes)])
  /\ UNCHANGED <<nextId, emitted, mstarts>>

DoKeySignature ==
  /\ Running
  /\ \E k \in KeyInputs : Exec(KeySignatureCmd(Top, song, k), [op |-> "keySignature"])
  /\ UNCHANGED <<nextId, emitted, mstarts>>

DoTimeSignature ==
  /\ Running
  /\ \E t \in TimeInputs :
       Exec(TimeSignatureCmd(Top, song, t[1], t[2]), [op |-> "timeSignature"])
  /\ UNCHANGED <<nextId, emitted, mstarts>>

DoMacro ==
  /\ Running
  /\ \E c \in MacroInputs : Exec(MacroCmd(Top, song, c), [op |-> "macro"])
  /\ UNCHANGED <<nextId, emitted, mstarts>>

DoString ==
  /\ Running
  /\ Exec(StringCmd(Top, song, "s"), [op |-> "string"])
  /\ UNCHANGED <<nextId, emitted, mstarts>>

\* the top-level command list is exhausted: compile() finishes
Finish ==
  /\ phase = "compile"
  /\ Len(stack) = 1
  /\ LET r == CompileEnd(Top, song, nextId)
         added == Len(r.song.notes) - Len(song.notes)
     IN  /\ song' = r.song
         /\ phase' = IF r.err THEN "error" ELSE "done"
         /\ nextId' = nextId + added
         /\ emitted' = emitted \o
              [i \in 1..added |-> <<nextId + i - 1, findEmptyTrackIdx(song)>>]
  /\ last' = [op |-> "finish", timeSignatures |-> song.timeSignatures]
  /\ UNCHANGED <<stack, ncmd, ksv, tr, ch, cx, gm, mstarts, oc, bk>>

Next ==
  \/ DoRestore \/ BlockOpen \/ BlockClose
  \/ DoHalfTime \/ DoDoubleTime \/ DoTripleTime
  \/ DoMeasure \/ DoSetTrack \/ DoClef
  \/ DoNote \/ DoRest
  \/ DoKeySignature \/ DoTimeSignature
  \/ DoMacro \/ DoString
  \/ Finish

Spec == Init /\ [][Next]_vars

\* ------------------------------------------------------------------
\* Properties of compile()
\* ------------------------------------------------------------------

\* C1: when a block closes, the commands after it are compiled with the
\* tempo scale and key signature the enclosing state had before the block,
\* whatever ht/dt/tt or ks ran inside, and they continue from the cursor
\* position the block reached.
C1_BlockScoping ==
  last.op = "blockClose" =>
    /\ Top.timeScale = last.parent.timeScale
    /\ Top.keySignature = last.parent.keySignature
    /\ Top.position = last.child.position

\* a block that changed the tempo scale and the key and moved the cursor
\* has just closed
C1_Witness ==
  /\ last.op = "blockClose"
  /\ \/ last.child.timeScale # last.parent.timeScale
     \/ last.child.keySignature # last.parent.keySignature
  /\ last.child.position # last.parent.position

\* C3: a note written without an octave digit resolves, accidental applied,
\* to a pitch at the least absolute semitone distance from the previous
\* note's pitch among all octave placements of its letter and accidental.
C3_ClosestOctave ==
  (last.op = "note" /\ last.rel /\ ~last.threw /\ last.prev # None) =>
    LET n == song.notes[Len(song.notes)].note
        dist(o) == Abs(parseNote([n EXCEPT !.oct = o]) - last.prev[1])
    IN  \A o \in 0..9 : dist(n.oct) <= dist(o)

\* C4: "|" inside a block puts the cursor where it was when the innermost
\* enclosing block was entered (the position the enclosing state still
\* holds), and the enclosing state continues from the block's last position.
C4_RestoreInBlock ==
  /\ (last.op = "restore" /\ Len(stack) > 1) =>
       Top.position = stack[Len(stack) - 1].position
  /\ last.op = "blockClose" => Top.position = last.child.position

\* "|" ran inside a block that was entered away from the top-level start
C4_Witness ==
  /\ last.op = "restore"
  /\ Len(stack) > 1
  /\ Top.position # stack[1].startPosition

\* C5: compile never raises an error
C5_NeverThrows == phase # "error"

Count(seq, id) == Cardinality({i \in DOMAIN seq : seq[i].id = id})

\* C9: every note pushed with a track is exactly once in the flat list and
\* exactly once in the list of the track active when it was pushed, the
\* same entity in both, and in no other track; the flat list holds nothing
\* else.
C9_FlatAndTrack ==
  /\ \A k \in DOMAIN emitted :
       LET id == emitted[k][1]
           t == emitted[k][2]
       IN  /\ Count(song.notes, id) = 1
           /\ t \in DOMAIN song.tracks
           /\ Count(song.tracks[t].notes, id) = 1
           /\ \A u \in DOMAIN song.tracks \ {t} : Count(song.tracks[u].notes, id) = 0
           /\ \A i \in DOMAIN song.notes : \A j \in DOMAIN song.tracks[t].notes :
                song.notes[i].id = id /\ song.tracks[t].notes[j].id = id
                  => song.notes[i] = song.tracks[t].notes[j]
  /\ \A i \in DOMAIN song.notes : \E k \in DOMAIN emitted : emitted[k][1] = song.notes[i].id

\* notes were pushed while two different tracks were active
C9_Witness ==
  /\ Len(emitted) >= 2
  /\ \E j, k \in DOMAIN emitted : emitted[j][2] # emitted[k][2]

\* ------------------------------------------------------------------
\* Specification SpecDiv: compile() on "c/n c/n ... c/n c", n notes of
\* duration /n followed by one plain note, default tempo and time signature.
\* For n up to MaxDiv no product 48 * (1/n) lies within floating-point
\* error of a half, so the exact rationals round as the doubles do.
\* ------------------------------------------------------------------

\* the largest divisor n written after "/"
MaxDiv == 48

InitDiv ==
  /\ stack = <<InitialState(DefaultOctave)>>
  /\ song = MultiTrackSong
  /\ nextId = 1
  /\ phase = "div"
  /\ ncmd = 0
  /\ last \in {[op |-> "div", n |-> n] : n \in 1..MaxDiv}
  /\ emitted = <<>>
  /\ ksv = None
  /\ tr = None
  /\ ch = None
  /\ cx = None
  /\ gm = None
  /\ mstarts = <<>>
  /\ oc = None
  /\ bk = None

\* the next of the n notes "c/n"
DivNote ==
  /\ phase = "div"
  /\ ncmd < last.n
  /\ \E r \in {NoteCmd(Top, song, nextId, Name("C", None),
                       Opts(Q(1, last.n), 0, None, "none"))} :
       /\ stack' = <<r.st>>
       /\ song' = r.song
  /\ emitted' = Append(emitted, <<nextId, Top.currentTrack>>)
  /\ nextId' = nextId + 1
  /\ ncmd' = ncmd + 1
  /\ UNCHANGED <<phase, last, ksv, tr, ch, cx, gm, mstarts, oc, bk>>

\* the note that follows the run
DivFollow ==
  /\ phase = "div"
  /\ ncmd = last.n
  /\ \E r \in {NoteCmd(Top, song, nextId, Name("C", None), NoOpts)} :
       /\ stack' = <<r.st>>
       /\ song' = r.song
  /\ emitted' = Append(emitted, <<nextId, Top.currentTrack>>)
  /\ nextId' = nextId + 1
  /\ ncmd' = ncmd + 1
  /\ phase' = "divDone"
  /\ UNCHANGED <<last, ksv, tr, ch, cx, gm, mstarts, oc, bk>>

NextDiv == DivNote \/ DivFollow

SpecDiv == InitDiv /\ [][NextDiv]_vars

\* C2 as stated: for every n, after n notes of duration /n the cursor has
\* advanced exactly one beat and the following note starts one beat after
\* the first.
C2_EveryDivisor ==
  /\ (phase = "div" /\ ncmd = last.n) => Top.position = QInt(TICKS_PER_BEAT)
  /\ phase = "divDone" =>
       song.notes[last.n + 1].start = QAdd(song.notes[1].start, QInt(1))

\* C2, amended: the same for every n that divides 48, the ticks of a beat
C2_DivisorsOfBeat ==
  TICKS_PER_BEAT % last.n = 0 => C2_EveryDivisor

\* a run of n >= 2 notes, n a divisor of 48, was followed by a note
C2_Witness ==
  /\ phase = "divDone"
  /\ last.n >= 2
  /\ TICKS_PER_BEAT % last.n = 0

\* ------------------------------------------------------------------
\* Specification SpecKs: transposeKeySignature on every count and amount
\* ------------------------------------------------------------------

\* the largest transposition, in semitones, up or down
MaxSemitones == 13

InitKs ==
  /\ stack = <<>>
  /\ song = MultiTrackSong
  /\ nextId = 1
  /\ phase = "ks"
  /\ ncmd = 0
  /\ last = [op |-> "start"]
  /\ emitted = <<>>
  /\ ksv \in {[currentKs |-> k, semitones |-> a, result |-> None] :
               k \in -7..7, a \in -MaxSemitones..MaxSemitones}
  /\ tr = None
  /\ ch = None
  /\ cx = None
  /\ gm = None
  /\ mstarts = <<>>
  /\ oc = None
  /\ bk = None

KsTranspose ==
  /\ ksv.result = None
  /\ ksv' = [ksv EXCEPT !.result = <<transposeKeySignature(ksv.currentKs, ksv.semitones)>>]
  /\ UNCHANGED <<stack, song, nextId, phase, ncmd, last, emitted, tr, ch, cx, gm, mstarts, oc, bk>>

NextKs == KsTranspose

SpecKs == InitKs /\ [][NextKs]_vars

\* C10: transposeKeySignature returns a count in -6..5
C10_Range == ksv.result # None => ksv.result[1] \in -6..5

\* ------------------------------------------------------------------
\* Specification SpecTranspose: a multi-track song is built with
\* pushWithTrack and then transposed
\* ------------------------------------------------------------------

\* the number of notes of the song that is transposed
MaxTrNotes == 3

TrNotes == {Note("C", 0, 4), Note("B", 0, 4)}

\* tracks 0 and 2: the sparse array has a hole at 1
TrTracks == {0, 2}

TrAmounts == {-1, 0, 2, 12}

InitTranspose ==
  /\ stack = <<>>
  /\ song = [MultiTrackSong EXCEPT
               !.metadata = <<[keySignature |-> 0, beatsPerMeasure |-> QInt(4)]>>,
               !.keySignatures = <<<<QInt(0), 0>>>>]
  /\ nextId = 1
  /\ phase = "build"
  /\ ncmd = 0
  /\ last = [op |-> "start"]
  /\ emitted = <<>>
  /\ ksv = None
  /\ tr = None
  /\ ch = None
  /\ cx = None
  /\ gm = None
  /\ mstarts = <<>>
  /\ oc = None
  /\ bk = None

TrPush ==
  /\ phase = "build"
  /\ Len(song.notes) < MaxTrNotes
  /\ \E n \in TrNotes, t \in TrTracks :
       /\ song' = pushWithTrack(song,
                    SongNote(nextId, n, QInt(Len(song.notes)), QInt(1)), t)
       /\ emitted' = Append(emitted, <<nextId, t>>)
  /\ nextId' = nextId + 1
  /\ UNCHANGED <<stack, phase, ncmd, last, ksv, tr, ch, cx, gm, mstarts, oc, bk>>

TrTranspose ==
  /\ phase = "build"
  /\ \E a \in TrAmounts :
       tr' = [amount |-> a, result |-> MultiTrackSong_transpose(song, a, nextId)]
  /\ phase' = "transposed"
  /\ nextId' = nextId + Len(song.notes)
  /\ UNCHANGED <<stack, song, ncmd, last, emitted, ksv, ch, cx, gm, mstarts, oc, bk>>

NextTranspose == TrPush \/ TrTranspose

SpecTranspose == InitTranspose /\ [][NextTranspose]_vars

\* C8: after transposing by a non-zero amount, every note of every track of
\* the result is in the result's flat list as the same entity (same Symbol,
\* same fields), once.
C8_SharedEntities ==
  (phase = "transposed" /\ tr.amount # 0) =>
    \A t \in DOMAIN tr.result.tracks :
      \A j \in DOMAIN tr.result.tracks[t].notes :
        /\ Count(tr.result.notes, tr.result.tracks[t].notes[j].id) = 1
        /\ \E i \in DOMAIN tr.result.notes :
             tr.result.notes[i] = tr.result.tracks[t].notes[j]

\* a song with notes in two tracks was transposed by a non-zero amount
C8_Witness ==
  /\ phase = "transposed"
  /\ tr.amount # 0
  /\ \A t \in TrTracks :
       t \in DOMAIN tr.result.tracks /\ tr.result.tracks[t].notes # <<>>
  /\ \E i \in DOMAIN song.notes : tr.result.notes[1].note # song.notes[i].note

\* ------------------------------------------------------------------
\* Specification SpecChords: a compiled melody with chord markers is given
\* to one of the auto-chord generators
\* ------------------------------------------------------------------

\* the number of melody notes and of chord markers
MaxChNotes == 2

MaxChMarkers == 2

\* melody pitches from C4 to A4, whole or half measures long
ChMelody == {Note("C", 0, 4), Note("E", 0, 4), Note("G", 0, 4), Note("A", 0, 4)}

ChBeats == {0, 2}

ChChords == {<<[letter |-> "C", acc |-> 0], "M">>, <<[letter |-> "A", acc |-> 0], "m7">>}

ChOptions == {[rate |-> 0, chordMinSpacing |-> 0], [rate |-> 2, chordMinSpacing |-> 2]}

InitChords ==
  /\ stack = <<>>
  /\ song = [MultiTrackSong EXCEPT
               !.metadata = <<[keySignature |-> 0, beatsPerMeasure |-> QInt(4)]>>,
               !.timeSignatures = <<<<QInt(0), 4>>>>]
  /\ nextId = 1
  /\ phase = "build"
  /\ ncmd = 0
  /\ last = [op |-> "start"]
  /\ emitted = <<>>
  /\ ksv = None
  /\ tr = None
  /\ ch = None
  /\ cx = None
  /\ gm = None
  /\ mstarts = <<>>
  /\ oc = None
  /\ bk = None

\* a melody note, two beats long, on track 0
ChPush ==
  /\ phase = "build"
  /\ Len(song.notes) < MaxChNotes
  /\ \E n \in ChMelody, b \in ChBeats :
       song' = pushWithTrack(song, SongNote(nextId, n, QInt(b), QInt(2)), 0)
  /\ emitted' = Append(emitted, <<nextId, 0>>)
  /\ nextId' = nextId + 1
  /\ UNCHANGED <<stack, phase, ncmd, last, ksv, tr, ch, cx, gm, mstarts, oc, bk>>

\* a chord marker, at a beat not before the markers already there
ChMark ==
  /\ phase = "build"
  /\ Len(song.autoChords) < MaxChMarkers
  /\ \E b \in ChBeats, c \in ChChords :
       /\ \A i \in DOMAIN song.autoChords : QLe(song.autoChords[i][1], QInt(b))
       /\ song' = [song EXCEPT !.autoChords = Append(@, <<QInt(b), c>>)]
  /\ UNCHANGED <<stack, nextId, phase, ncmd, last, emitted, ksv, tr, ch, cx, gm, mstarts, oc, bk>>

\* new Generator(song, options).addChords(); ch records, for every chord
\* block, the ceiling minPitchInRange computed and the notes generated
ChGenerate ==
  /\ phase = "build"
  /\ song.autoChords # <<>>
  /\ \E strategy \in Strategies, options \in ChOptions :
       /\ ~addChordsThrows(strategy, song, options)
       /\ \E blocks \in {findChordBlocks(song)} :
            ch' = [strategy |-> strategy, options |-> options,
                   blocks |-> [b \in DOMAIN blocks |->
                     [ceiling |-> minPitchInRange(song, options,
                                                  blocks[b].start, blocks[b].stop),
                      notes |-> notesForChord(strategy, song, options,
                                  blocks[b].chord[1], blocks[b].chord[2],
                                  blocks[b].start, blocks[b].stop)]]]
       /\ \E r \in {addChords(strategy, song, options, nextId)} :
            /\ song' = r
            /\ nextId' = nextId + (Len(r.notes) - Len(song.notes))
  /\ phase' = "chords"
  /\ UNCHANGED <<stack, ncmd, last, emitted, ksv, tr, cx, gm, mstarts, oc, bk>>

NextChords == ChPush \/ ChMark \/ ChGenerate

SpecChords == InitChords /\ [][NextChords]_vars

\* C7: every note generated for a chord block is strictly below the
\* ceiling computed for that block, whatever the strategy
C7_BelowCeiling ==
  phase = "chords" =>
    \A b \in DOMAIN ch.blocks :
      \A i \in DOMAIN ch.blocks[b].notes :
        parseNote(ch.blocks[b].notes[i].note) < ch.blocks[b].ceiling

\* ------------------------------------------------------------------
\* editor/src/compression: dictionary.ts, lz77.ts, tokenizer.ts, index.ts
\* Bytes are numbers 0..255, a Uint8Array is a sequence of them, read with
\* 0-based positions; a base64url string is the sequence of the indices of
\* its characters in BASE64URL_CHARS.
\* ------------------------------------------------------------------

SPECIAL_STRING_START == 145

SPECIAL_NEGATIVE == 148

SPECIAL_HAS_COUNT == 149

LZ77_SHORT_MIN == 160

LZ77_SHORT_MAX == 191

LZ77_MEDIUM_MIN == 192

LZ77_MEDIUM_MAX == 223

LITERAL_ESCAPE == 255

WINDOW_SIZE == 4096

MIN_MATCH == 3

MAX_MATCH_SHORT == 10

MAX_MATCH_MEDIUM == 34

FLAG_HAS_FRONTMATTER == 1

\* data[i] of a typed array: undefined past the end, which every use below
\* turns into 0 or into a failed comparison
InData(data, i) == i >= 0 /\ i < Len(data)

At(data, i) == IF InData(data, i) THEN data[i + 1] ELSE 0

RECURSIVE ConcatFrom(_, _)
ConcatFrom(seqs, i) ==
  IF i > Len(seqs) THEN <<>> ELSE seqs[i] \o ConcatFrom(seqs, i + 1)

\* the sequences of seqs, one after the other
ConcatAll(seqs) == Bind(seqs, LAMBDA v : ConcatFrom(v, 1))

\* The printable ASCII characters, Chars[i] having the code 31 + i (the
\* grave accent, code 96, cannot be written in a string and is left empty)
Chars ==
  <<" ", "!", "\"", "#", "$", "%", "&", "'", "(", ")", "*", "+", ",", "-", ".", "/",
    "0", "1", "2", "3", "4", "5", "6", "7", "8", "9", ":", ";", "<", "=", ">", "?",
    "@", "A", "B", "C", "D", "E", "F", "G", "H", "I", "J", "K", "L", "M", "N", "O",
    "P", "Q", "R", "S", "T", "U", "V", "W", "X", "Y", "Z", "[", "\\", "]", "^", "_",
    "", "a", "b", "c", "d", "e", "f", "g", "h", "i", "j", "k", "l", "m", "n", "o",
    "p", "q", "r", "s", "t", "u", "v", "w", "x", "y", "z", "{", "|", "}", "~">>

\* c.charCodeAt(0)
Code(c) == IF c = "\n" THEN 10 ELSE 31 + (CHOOSE i \in 1..Len(Chars) : Chars[i] = c)

\* A JavaScript string is the sequence of its character codes
Str(cs) == [i \in 1..Len(cs) |-> Code(cs[i])]

Digits == 48..57

Spaces == {9, 10, 11, 12, 13, 32}

IdentStart == (65..90) \cup (97..122) \cup {95}

IdentChars == IdentStart \cup Digits

\* str.slice(a, b)
Slice(str, a, b) == SubSeq(str, a + 1, b)

\* the position after the longest run of characters of set from p on
RECURSIVE RunEnd(_, _, _)
RunEnd(str, p, set) ==
  IF InData(str, p) /\ At(str, p) \in set THEN RunEnd(str, p + 1, set) ELSE p

RECURSIVE DigitsValue(_, _, _)
DigitsValue(str, i, acc) ==
  IF i > Len(str) \/ str[i] \notin Digits THEN acc
  ELSE DigitsValue(str, i + 1, acc * 10 + (str[i] - 48))

\* parseInt(str) of a string that starts with a number
parseInt(str) ==
  IF Len(str) > 0 /\ str[1] = Code("-") THEN -DigitsValue(str, 2, 0)
  ELSE DigitsValue(str, 1, 0)

RECURSIVE NatToStr(_)
NatToStr(n) == IF n < 10 THEN <<48 + n>> ELSE NatToStr(n \div 10) \o <<48 + (n % 10)>>

\* a number inside a template string
NumToStr(n) == IF n < 0 THEN <<Code("-")>> \o NatToStr(-n) ELSE NatToStr(n)

\* '.'.repeat(n)
Repeat(c, n) == [i \in 1..n |-> c]

\* Token of tokenizer.ts.  An optional field is None (undefined) or <<v>>;
\* dots is 0 when undefined.
Token(type, value) ==
  [type |-> type, value |-> value, noteName |-> None, accidental |-> None,
   octave |-> None, duration |-> None, dots |-> 0, start |-> None, key |-> None]

\* COMMANDS
COMMANDS(c) ==
  CASE c = "m" -> 1 [] c = "{" -> 2 [] c = "}" -> 3 [] c = "|" -> 4
    [] c = "dt" -> 5 [] c = "ht" -> 6 [] c = "tt" -> 7 [] c = "r" -> 8
    [] c = "ks" -> 9 [] c = "ts" -> 10 [] c = "t" -> 11 [] c = "/g" -> 12
    [] c = "/c" -> 13 [] c = "/f" -> 14 [] c = "$" -> 15

REVERSE_COMMANDS(b) ==
  CASE b = 1 -> "m" [] b = 2 -> "{" [] b = 3 -> "}" [] b = 4 -> "|"
    [] b = 5 -> "dt" [] b = 6 -> "ht" [] b = 7 -> "tt" [] b = 8 -> "r"
    [] b = 9 -> "ks" [] b = 10 -> "ts" [] b = 11 -> "t" [] b = 12 -> "/g"
    [] b = 13 -> "/c" [] b = 14 -> "/f" [] b = 15 -> "$"

NoteLetters == Str(<<"c", "d", "e", "f", "g", "a", "b">>)

\* NOTE_INDICES of a lower-case note letter
NOTE_INDICES(name) == CHOOSE i \in 0..6 : NoteLetters[i + 1] = name

\* NOTES_OCT5
NOTES_OCT5(name) == 16 + NOTE_INDICES(name)

\* REVERSE_NOTES_OCT5
REVERSE_NOTES_OCT5(b) == NoteLetters[b - 16 + 1]

encodeNoteOctave(name, octave) == 32 + (octave * 7) + NOTE_INDICES(name)

decodeNoteOctave(b) ==
  [note |-> NoteLetters[((b - 32) % 7) + 1], octave |-> (b - 32) \div 7]

\* The texts of MODIFIERS, in the order of their codes 0x80..0x8E
ModifierTexts ==
  << Str(<<"+">>), Str(<<"-">>), Str(<<"=">>),
     Str(<<"*", "2">>), Str(<<"*", "3">>), Str(<<"*", "4">>), Str(<<"*", "5">>),
     Str(<<"*", "6">>), Str(<<"/", "2">>), Str(<<"/", "4">>),
     Str(<<".">>), Str(<<".", ".">>), Str(<<"@">>), Str(<<"*">>), Str(<<"/">>) >>

\* MODIFIERS[text]: 0 for undefined
MODIFIERS(text) ==
  IF \E i \in 1..Len(ModifierTexts) : ModifierTexts[i] = text
    THEN 127 + (CHOOSE i \in 1..Len(ModifierTexts) : ModifierTexts[i] = text)
    ELSE 0

\* REVERSE_MODIFIERS.get(b) of a modifier byte
REVERSE_MODIFIERS(b) == ModifierTexts[b - 127]

Accidentals == {Code("+"), Code("-"), Code("=")}

isCommand(b) == b >= 1 /\ b <= 15

isNoteOct5(b) == b >= 16 /\ b <= 22

isNoteWithOctave(b) == b >= 32 /\ b <= 101

isModifier(b) == b >= 128 /\ b <= 142

isLz77(b) == b >= LZ77_SHORT_MIN /\ b <= LZ77_MEDIUM_MAX

\* encodeVarInt, the loop for n >= 128
RECURSIVE VarIntBytes(_)
VarIntBytes(n) ==
  IF n = 0 THEN <<>>
  ELSE <<IF n \div 128 > 0 THEN (n % 128) + 128 ELSE n % 128>> \o VarIntBytes(n \div 128)

encodeVarInt(n) ==
  IF n < 0 THEN <<SPECIAL_NEGATIVE>> \o (IF -n < 128 THEN <<-n>> ELSE VarIntBytes(-n))
  ELSE IF n < 128 THEN <<n>> ELSE VarIntBytes(n)

\* decodeVarInt, the loop: the value read from position p on and the
\* number of bytes read
RECURSIVE VarIntLoop(_, _, _)
VarIntLoop(data, p, shift) ==
  IF ~InData(data, p) THEN [value |-> 0, bytesRead |-> 0]
  ELSE IF At(data, p) < 128
         THEN [value |-> At(data, p) * Pow(2, shift), bytesRead |-> 1]
         ELSE Bind(VarIntLoop(data, p + 1, shift + 7), LAMBDA r :
                [value |-> (At(data, p) - 128) * Pow(2, shift) + r.value,
                 bytesRead |-> r.bytesRead + 1])

decodeVarInt(data, pos) ==
  IF InData(data, pos) /\ At(data, pos) = SPECIAL_NEGATIVE
    THEN Bind(VarIntLoop(data, pos + 1, 0), LAMBDA r :
           [value |-> -r.value, bytesRead |-> r.bytesRead + 1])
    ELSE VarIntLoop(data, pos, 0)

\* ---- tokenizer.ts ----

\* A regular-expression match at a position: the position after it, or
\* NoMatch
NoMatch == -1

\* \d+ at p
MatchDigits(str, p) ==
  IF At(str, p) \in Digits /\ InData(str, p) THEN RunEnd(str, p, Digits) ELSE NoMatch

\* two literal characters at p
Lit2(str, p, a, b) == At(str, p) = Code(a) /\ At(str, p + 1) = Code(b)

\* FRONTMATTER_RE on a line: the key and the trimmed text after the colon,
\* or None
FRONTMATTER_RE(line) ==
  IF At(line, 0) # Code("#") THEN None
  ELSE LET k0 == RunEnd(line, 1, Spaces)
           k1 == RunEnd(line, k0, IdentChars)
           c  == RunEnd(line, k1, Spaces)
           v0 == RunEnd(line, c + 1, Spaces)
           v1 == CHOOSE e \in v0..Len(line) :
                   /\ \A i \in e..(Len(line) - 1) : At(line, i) \in Spaces
                   /\ e > v0 => At(line, e - 1) \notin Spaces
       IN  IF At(line, k0) \in IdentStart /\ At(line, c) = Code(":")
             THEN <<[key |-> Slice(line, k0, k1), value |-> Slice(line, v0, v1)]>>
             ELSE None

\* extractFrontmatterValue
extractFrontmatterValue(line) ==
  IF FRONTMATTER_RE(line) = None THEN <<>> ELSE FRONTMATTER_RE(line)[1].value

\* lml.indexOf("\n", pos), with the length of the text for -1
LineEnd(lml, pos) ==
  IF \E i \in pos..(Len(lml) - 1) : At(lml, i) = 10
    THEN CHOOSE i \in pos..(Len(lml) - 1) :
           At(lml, i) = 10 /\ \A j \in pos..(i - 1) : At(lml, j) # 10
    ELSE Len(lml)

\* MACRO_RE
MACRO_RE(str, p) ==
  IF At(str, p) = Code("$") /\ At(str, p + 1) \in IdentChars
    THEN RunEnd(str, p + 1, IdentChars) ELSE NoMatch

\* the body and closing quote of STRING_RE, from p on
RECURSIVE StringBody(_, _, _)
StringBody(str, p, quote) ==
  IF ~InData(str, p) THEN NoMatch
  ELSE IF At(str, p) = quote THEN p + 1
  ELSE IF At(str, p) = Code("\\")
         THEN IF InData(str, p + 1) /\ At(str, p + 1) # 10
                THEN StringBody(str, p + 2, quote) ELSE NoMatch
  ELSE StringBody(str, p + 1, quote)

\* STRING_RE
STRING_RE(str, p) ==
  IF InData(str, p) /\ At(str, p) \in {Code("\""), Code("'")}
    THEN StringBody(str, p + 1, At(str, p)) ELSE NoMatch

\* COMMAND_RE, its alternatives in order
COMMAND_RE(str, p) ==
  LET ksNum == IF At(str, p + 2) = Code("-") THEN p + 3 ELSE p + 2
      tsTop == MatchDigits(str, p + 2)
  IN  IF Lit2(str, p, "k", "s") /\ MatchDigits(str, ksNum) # NoMatch
        THEN MatchDigits(str, ksNum)
      ELSE IF /\ Lit2(str, p, "t", "s") /\ tsTop # NoMatch
              /\ At(str, tsTop) = Code("/") /\ MatchDigits(str, tsTop + 1) # NoMatch
        THEN MatchDigits(str, tsTop + 1)
      ELSE IF Lit2(str, p, "d", "t") \/ Lit2(str, p, "h", "t") \/ Lit2(str, p, "t", "t")
        THEN RunEnd(str, p + 2, Digits)
      ELSE IF At(str, p) = Code("m") THEN RunEnd(str, p + 1, Digits)
      ELSE IF At(str, p) = Code("t") /\ MatchDigits(str, p + 1) # NoMatch
        THEN MatchDigits(str, p + 1)
      ELSE IF At(str, p) = Code("/") /\ At(str, p + 1) \in Str(<<"g", "c", "f", "G", "C", "F">>)
        THEN p + 2
      ELSE NoMatch

\* the groups (\.+)?(@\d+)? shared by REST_RE and NOTE_RE, from p on
DotsAndStart(str, p) ==
  LET d == RunEnd(str, p, {Code(".")})
      s == IF At(str, d) = Code("@") /\ MatchDigits(str, d + 1) # NoMatch
             THEN MatchDigits(str, d + 1) ELSE d
  IN  [dots |-> d - p,
       start |-> IF s > d THEN <<parseInt(Slice(str, d + 1, s))>> ELSE None,
       end |-> s]

\* REST_RE and the token built from its match
REST_RE(str, p) ==
  IF At(str, p) \notin {Code("r"), Code("R"), Code("_")} THEN None
  ELSE LET a == p + 1
           n == IF At(str, a) \in {Code("*"), Code("/")} THEN a + 1 ELSE a
           d == IF MatchDigits(str, n) # NoMatch THEN MatchDigits(str, n) ELSE a
           m == DotsAndStart(str, d)
       IN  <<[tok |-> [Token("rest", Slice(str, p, m.end)) EXCEPT
                        !.duration = IF d > a THEN <<Slice(str, a, d)>> ELSE None,
                        !.dots = m.dots, !.start = m.start],
              end |-> m.end]>>

toLowerCase(c) == IF c \in 65..90 THEN c + 32 ELSE c

\* NOTE_RE and the token built from its match
NOTE_RE(str, p) ==
  IF toLowerCase(At(str, p)) \notin 97..103 THEN None
  ELSE LET a == IF At(str, p + 1) \in Accidentals THEN p + 2 ELSE p + 1
           o == IF At(str, a) \in Digits THEN a + 1 ELSE a
           d == IF At(str, o) \in {Code("*"), Code("/")} /\ MatchDigits(str, o + 1) # NoMatch
                  THEN MatchDigits(str, o + 1) ELSE o
           m == DotsAndStart(str, d)
       IN  <<[tok |-> [Token("note", Slice(str, p, m.end)) EXCEPT
                        !.noteName = <<toLowerCase(At(str, p))>>,
                        !.accidental = IF a > p + 1 THEN <<At(str, p + 1)>> ELSE None,
                        !.octave = IF o > a THEN <<At(str, a) - 48>> ELSE None,
                        !.duration = IF d > o THEN <<Slice(str, o, d)>> ELSE None,
                        !.dots = m.dots, !.start = m.start],
              end |-> m.end]>>

\* tokenize, one round of its loop at a position that is not whitespace and
\* not frontmatter: the tokens pushed and the next position
tokenizeCommand(lml, pos) ==
  LET c == At(lml, pos)
      one(type) == [toks |-> <<Token(type, <<c>>)>>, pos |-> pos + 1]
      valued(type, end) == [toks |-> <<Token(type, Slice(lml, pos, end))>>, pos |-> end]
  IN  IF c = Code("#") THEN [toks |-> <<>>, pos |-> LineEnd(lml, pos)]
      ELSE IF c = Code("{") THEN one("block_start")
      ELSE IF c = Code("}") THEN one("block_end")
      ELSE IF c = Code("|") THEN one("pipe")
      ELSE IF MACRO_RE(lml, pos) # NoMatch THEN valued("macro", MACRO_RE(lml, pos))
      ELSE IF STRING_RE(lml, pos) # NoMatch THEN valued("string", STRING_RE(lml, pos))
      ELSE IF COMMAND_RE(lml, pos) # NoMatch THEN valued("command", COMMAND_RE(lml, pos))
      ELSE IF REST_RE(lml, pos) # None
        THEN [toks |-> <<REST_RE(lml, pos)[1].tok>>, pos |-> REST_RE(lml, pos)[1].end]
      ELSE IF NOTE_RE(lml, pos) # None
        THEN [toks |-> <<NOTE_RE(lml, pos)[1].tok>>, pos |-> NOTE_RE(lml, pos)[1].end]
      ELSE [toks |-> <<>>, pos |-> pos + 1]

\* tokenize, one round of its loop: the tokens pushed, the next position
\* and inFrontmatter
tokenizeStep(lml, pos, inFrontmatter) ==
  LET lineEnd == LineEnd(lml, pos)
      line == Slice(lml, pos, lineEnd)
  IN  IF At(lml, pos) \in Spaces
        THEN [toks |-> <<>>, pos |-> RunEnd(lml, pos, Spaces), inFm |-> inFrontmatter]
      ELSE IF inFrontmatter /\ FRONTMATTER_RE(line) # None
        THEN [toks |-> <<[Token("frontmatter", line) EXCEPT
                            !.key = <<FRONTMATTER_RE(line)[1].key>>]>>,
              pos |-> IF lineEnd = Len(lml) THEN Len(lml) ELSE lineEnd + 1,
              inFm |-> TRUE]
      ELSE Bind(tokenizeCommand(lml, pos), LAMBDA r :
             [toks |-> r.toks, pos |-> r.pos, inFm |-> FALSE])

RECURSIVE tokenizeLoop(_, _, _)
tokenizeLoop(lml, pos, inFrontmatter) ==
  IF pos >= Len(lml) THEN <<>>
  ELSE Bind(tokenizeStep(lml, pos, inFrontmatter), LAMBDA r :
         r.toks \o tokenizeLoop(lml, r.pos, r.inFm))

tokenize(lml) == Bind(lml, LAMBDA v : tokenizeLoop(v, 0, TRUE))

\* reconstruct, the text of one token
reconstructToken(token) ==
  IF token.type = "frontmatter"
    THEN Str(<<"#", " ">>) \o token.key[1] \o Str(<<":", " ">>)
           \o extractFrontmatterValue(token.value)
  ELSE IF token.type \in {"note", "rest"}
    THEN (IF token.type = "note" THEN token.noteName ELSE Str(<<"r">>))
           \o (IF token.type = "note" THEN token.accidental ELSE <<>>)
           \o (IF token.type = "note" /\ token.octave # None
                 THEN NumToStr(token.octave[1]) ELSE <<>>)
           \o (IF token.duration # None THEN token.duration[1] ELSE <<>>)
           \o Repeat(Code("."), token.dots)
           \o (IF token.start # None THEN Str(<<"@">>) \o NumToStr(token.start[1]) ELSE <<>>)
  ELSE token.value

\* reconstruct, the separator pushed before token i
reconstructSeparator(tokens, i) ==
  IF i > 1 /\ tokens[i - 1].type # "block_start" /\ tokens[i].type # "block_end"
    THEN IF tokens[i - 1].type = "frontmatter" THEN <<10>> ELSE <<32>>
    ELSE <<>>

reconstruct(tokens) ==
  Bind(tokens, LAMBDA ts :
    ConcatAll([i \in 1..Len(ts) |-> reconstructSeparator(ts, i) \o reconstructToken(ts[i])]))

\* reconstructNoteValue and reconstructRestValue of index.ts
reconstructValue(token) == reconstructToken(token)

\* ---- index.ts: encodeTokens ----

\* str.startsWith(prefix)
StartsWith(str, prefix) ==
  Len(str) >= Len(prefix) /\ SubSeq(str, 1, Len(prefix)) = prefix

\* str.replace(/pat/g, rep) for a literal pattern
RECURSIVE ReplaceFrom(_, _, _, _)
ReplaceFrom(str, i, pat, rep) ==
  IF i > Len(str) THEN <<>>
  ELSE IF i + Len(pat) - 1 <= Len(str) /\ SubSeq(str, i, i + Len(pat) - 1) = pat
    THEN rep \o ReplaceFrom(str, i + Len(pat), pat, rep)
  ELSE <<str[i]>> \o ReplaceFrom(str, i + 1, pat, rep)

ReplaceAll(str, pat, rep) == Bind(str, LAMBDA v : ReplaceFrom(v, 1, pat, rep))

\* the content of a string token: its quotes removed, its escapes undone
StringContent(value) ==
  ReplaceAll(ReplaceAll(ReplaceAll(ReplaceAll(Slice(value, 1, Len(value) - 1),
      Str(<<"\\", "n">>), <<10>>),
      Str(<<"\\", "\"">>), Str(<<"\"">>)),
      Str(<<"\\", "'">>), Str(<<"'">>)),
      Str(<<"\\", "\\">>), Str(<<"\\">>))

\* the Duration part of the note and rest cases
encodeDuration(token) ==
  IF token.duration = None \/ token.duration = <<<<>>>> THEN <<>>
  ELSE LET dur == token.duration[1]
           isDivision == StartsWith(dur, Str(<<"/">>))
           durStr == IF StartsWith(dur, Str(<<"*">>)) THEN Slice(dur, 1, Len(dur)) ELSE dur
           num == IF token.type = "note" THEN parseInt(Slice(dur, 1, Len(dur)))
                  ELSE parseInt(IF isDivision THEN Slice(durStr, 1, Len(durStr)) ELSE durStr)
       IN  IF MODIFIERS(dur) # 0 THEN <<MODIFIERS(dur)>>
           ELSE <<IF isDivision THEN MODIFIERS(Str(<<"/">>)) ELSE MODIFIERS(Str(<<"*">>))>>
                  \o encodeVarInt(num)

\* the Dots part: a rest has no branch for more than two dots
encodeDots(token) ==
  IF token.dots = 1 THEN <<MODIFIERS(Str(<<".">>))>>
  ELSE IF token.dots = 2 THEN <<MODIFIERS(Str(<<".", ".">>))>>
  ELSE IF token.type = "note" /\ token.dots > 2
    THEN <<MODIFIERS(Str(<<".">>))>> \o encodeVarInt(token.dots)
  ELSE <<>>

\* the Start position part
encodeStart(token) ==
  IF token.start # None
    THEN <<MODIFIERS(Str(<<"@">>))>> \o encodeVarInt(token.start[1]) ELSE <<>>

\* the optional count of dt, ht, tt and m
encodeCount(count) ==
  IF Len(count) > 0 THEN <<SPECIAL_HAS_COUNT>> \o encodeVarInt(parseInt(count)) ELSE <<>>

\* case 'command'
encodeCommand(cmd) ==
  LET after(n) == Slice(cmd, n, Len(cmd))
      slash == CHOOSE i \in 1..Len(cmd) : cmd[i] = Code("/")
  IN  IF StartsWith(cmd, Str(<<"k", "s">>))
        THEN <<COMMANDS("ks")>> \o encodeVarInt(parseInt(after(2)))
      ELSE IF StartsWith(cmd, Str(<<"t", "s">>))
        THEN <<COMMANDS("ts")>> \o encodeVarInt(parseInt(after(2)))
               \o encodeVarInt(parseInt(after(slash)))
      ELSE IF StartsWith(cmd, Str(<<"d", "t">>)) THEN <<COMMANDS("dt")>> \o encodeCount(after(2))
      ELSE IF StartsWith(cmd, Str(<<"h", "t">>)) THEN <<COMMANDS("ht")>> \o encodeCount(after(2))
      ELSE IF StartsWith(cmd, Str(<<"t", "t">>)) THEN <<COMMANDS("tt")>> \o encodeCount(after(2))
      ELSE IF StartsWith(cmd, Str(<<"m">>)) THEN <<COMMANDS("m")>> \o encodeCount(after(1))
      ELSE IF StartsWith(cmd, Str(<<"t">>)) /\ MatchDigits(cmd, 1) = Len(cmd)
        THEN <<COMMANDS("t")>> \o encodeVarInt(parseInt(after(1)))
      ELSE IF StartsWith(cmd, Str(<<"/">>))
        THEN CASE toLowerCase(cmd[2]) = Code("g") -> <<COMMANDS("/g")>>
               [] toLowerCase(cmd[2]) = Code("c") -> <<COMMANDS("/c")>>
               [] toLowerCase(cmd[2]) = Code("f") -> <<COMMANDS("/f")>>
               [] OTHER -> <<>>
      ELSE <<>>

\* the bytes pushed for one token that is not frontmatter
encodeToken(token) ==
  CASE token.type = "block_start" -> <<COMMANDS("{")>>
    [] token.type = "block_end" -> <<COMMANDS("}")>>
    [] token.type = "pipe" -> <<COMMANDS("|")>>
    [] token.type = "note" ->
         (IF token.accidental # None /\ MODIFIERS(token.accidental) # 0
            THEN <<MODIFIERS(token.accidental)>> ELSE <<>>)
         \o <<IF token.octave = None
                THEN NOTES_OCT5(toLowerCase(token.noteName[1]))
                ELSE encodeNoteOctave(toLowerCase(token.noteName[1]), token.octave[1])>>
         \o encodeDuration(token) \o encodeDots(token) \o encodeStart(token)
    [] token.type = "rest" ->
         <<COMMANDS("r")>> \o encodeDuration(token) \o encodeDots(token) \o encodeStart(token)
    [] token.type = "command" -> encodeCommand(token.value)
    [] token.type = "macro" ->
         <<COMMANDS("$"), Len(token.value) - 1>> \o Slice(token.value, 1, Len(token.value))
    [] token.type = "string" ->
         LET content == StringContent(token.value)
         IN  <<SPECIAL_STRING_START, Len(content) % 256, (Len(content) \div 256) % 256>>
               \o content
    [] OTHER -> <<>>

\* the bytes pushed for one frontmatter token
encodeFrontmatter(fm) ==
  LET key == IF fm.key = None THEN <<>> ELSE fm.key[1]
      value == extractFrontmatterValue(fm.value)
  IN  <<Len(key)>> \o key \o <<Len(value)>> \o value

encodeTokens(tokens) ==
  Bind(tokens, LAMBDA ts :
    LET frontmatter == SelectSeq(ts, LAMBDA t : t.type = "frontmatter")
        commands == SelectSeq(ts, LAMBDA t : t.type # "frontmatter")
        bytes ==
          <<76, 77, 16 + (IF Len(frontmatter) > 0 THEN FLAG_HAS_FRONTMATTER ELSE 0)>>
          \o (IF Len(frontmatter) > 0
                THEN <<Len(frontmatter)>>
                       \o ConcatAll([i \in 1..Len(frontmatter) |-> encodeFrontmatter(frontmatter[i])])
                ELSE <<>>)
          \o ConcatAll([i \in 1..Len(commands) |-> encodeToken(commands[i])])
    IN  [i \in 1..Len(bytes) |-> bytes[i] % 256])

\* ---- lz77.ts ----

\* findMatch, the while loop: how many bytes from i on equal those from pos on
RECURSIVE MatchLength(_, _, _, _)
MatchLength(data, i, pos, length) ==
  IF /\ pos + length < Len(data)
     /\ length < MAX_MATCH_MEDIUM
     /\ At(data, i + length) = At(data, pos + length)
    THEN MatchLength(data, i, pos, length + 1)
    ELSE length

\* findMatch: None or <<the first longest match of at least MIN_MATCH bytes>>
findMatch(data, pos, windowStart) ==
  LET from == Max2(windowStart, 0)
      lens == [i \in from..(pos - 1) |-> MatchLength(data, i, pos, 0)]
      good == {i \in from..(pos - 1) : lens[i] >= MIN_MATCH}
      best == CHOOSE i \in good :
                \A j \in good : lens[j] < lens[i] \/ (lens[j] = lens[i] /\ j >= i)
  IN  IF good = {} THEN None ELSE <<[offset |-> pos - best, length |-> lens[best]]>>

encodeBackRef(offset, length) ==
  IF offset <= 32 /\ length <= MAX_MATCH_SHORT
    THEN <<LZ77_SHORT_MIN + (offset - 1), length - MIN_MATCH>>
    ELSE <<LZ77_MEDIUM_MIN + (length - MIN_MATCH), (offset \div 256) % 16, offset % 256>>

RECURSIVE compressLoop(_, _)
compressLoop(data, pos) ==
  IF pos >= Len(data) THEN <<>>
  ELSE Bind(findMatch(data, pos, Max2(0, pos - WINDOW_SIZE)), LAMBDA match :
         IF match # None
           THEN encodeBackRef(match[1].offset, match[1].length)
                  \o compressLoop(data, pos + match[1].length)
           ELSE (IF isLz77(At(data, pos)) \/ At(data, pos) = LITERAL_ESCAPE
                   THEN <<LITERAL_ESCAPE, At(data, pos)>> ELSE <<At(data, pos)>>)
                  \o compressLoop(data, pos + 1))

compressLz77(data) == Bind(data, LAMBDA v : compressLoop(v, 0))

\* decodeBackRef of a byte for which isLz77 holds
decodeBackRef(data, pos) ==
  LET code == At(data, pos)
  IN  IF code >= LZ77_SHORT_MIN /\ code <= LZ77_SHORT_MAX
        THEN [offset |-> (code - LZ77_SHORT_MIN) + 1,
              length |-> IF InData(data, pos + 1)
                           THEN At(data, pos + 1) + MIN_MATCH ELSE 0,
              bytesRead |-> 2]
        ELSE [offset |-> At(data, pos + 1) * 256 + At(data, pos + 2),
              length |-> (code - LZ77_MEDIUM_MIN) + MIN_MATCH, bytesRead |-> 3]

\* decodeBackRef throws "Invalid LZ77 code" for a code in neither range
decodeBackRefThrows(data, pos) ==
  LET code == At(data, pos)
  IN  /\ ~(code >= LZ77_SHORT_MIN /\ code <= LZ77_SHORT_MAX)
      /\ ~(code >= LZ77_MEDIUM_MIN /\ code <= LZ77_MEDIUM_MAX)

\* decompressLz77, the for loop that copies a back-reference
RECURSIVE CopyBackRef(_, _, _, _)
CopyBackRef(output, startPos, i, length) ==
  IF i >= length THEN output
  ELSE Bind(Append(output, At(output, startPos + i)), LAMBDA o :
         CopyBackRef(o, startPos, i + 1, length))

RECURSIVE decompressLoop(_, _, _)
decompressLoop(data, pos, output) ==
  IF pos >= Len(data) THEN output
  ELSE IF At(data, pos) = LITERAL_ESCAPE
    THEN Bind(Append(output, At(data, pos + 1)), LAMBDA o : decompressLoop(data, pos + 2, o))
  ELSE IF isLz77(At(data, pos))
    THEN Bind(decodeBackRef(data, pos), LAMBDA r :
           Bind(CopyBackRef(output, Len(output) - r.offset, 0, r.length), LAMBDA o :
             decompressLoop(data, pos + r.bytesRead, o)))
  ELSE Bind(Append(output, At(data, pos)), LAMBDA o : decompressLoop(data, pos + 1, o))

decompressLz77(data) == Bind(data, LAMBDA v : decompressLoop(v, 0, <<>>))

\* decompressLz77 leaves by the Error of decodeBackRef
RECURSIVE decompressLoopThrows(_, _)
decompressLoopThrows(data, pos) ==
  IF pos >= Len(data) THEN FALSE
  ELSE IF At(data, pos) = LITERAL_ESCAPE THEN decompressLoopThrows(data, pos + 2)
  ELSE IF isLz77(At(data, pos))
    THEN \/ decodeBackRefThrows(data, pos)
         \/ decompressLoopThrows(data, pos + decodeBackRef(data, pos).bytesRead)
  ELSE decompressLoopThrows(data, pos + 1)

decompressLz77Throws(data) == Bind(data, LAMBDA v : decompressLoopThrows(v, 0))

\* ---- index.ts: base64url ----

\* toBase64Url: every group of up to three bytes gives four characters
toBase64Url(bytes) ==
  Bind(bytes, LAMBDA v :
    ConcatAll([g \in 1..((Len(v) + 2) \div 3) |->
      LET b0 == At(v, 3 * g - 3)
          b1 == At(v, 3 * g - 2)
          b2 == At(v, 3 * g - 1)
      IN  << b0 \div 4, ((b0 * 16) + (b1 \div 16)) % 64,
             ((b1 * 4) + (b2 \div 64)) % 64, b2 % 64 >>]))

\* fromBase64Url: the bytes of the groups of four characters; the trailing
\* zero bytes are removed only while the length is no multiple of four, and
\* the second and third byte of the last group are pushed only if the
\* string reaches that far
fromBase64Url(str) ==
  Bind(str, LAMBDA v :
    LET all == ConcatAll([g \in 1..((Len(v) + 3) \div 4) |->
                 LET c0 == At(v, 4 * g - 4)
                     c1 == At(v, 4 * g - 3)
                     c2 == At(v, 4 * g - 2)
                     c3 == At(v, 4 * g - 1)
                     i  == 4 * g
                 IN  <<(c0 * 4) + (c1 \div 16)>>
                       \o (IF i > Len(v) + 1 THEN <<>>
                           ELSE <<((c1 * 16) + (c2 \div 4)) % 256>>
                                  \o (IF i > Len(v) THEN <<>>
                                      ELSE <<((c2 * 64) + c3) % 256>>))])
        keep == IF Len(v) % 4 = 0 THEN Len(all)
                ELSE CHOOSE k \in 0..Len(all) :
                       /\ \A j \in (k + 1)..Len(all) : all[j] = 0
                       /\ k > 0 => all[k] # 0
    IN  SubSeq(all, 1, keep))

\* ---- index.ts: decodeTokens ----

\* the while loop that reads the modifiers after a rest or a note: the token
\* and the position after them
RECURSIVE decodeModifiers(_, _, _)
decodeModifiers(data, pos, token) ==
  IF ~(pos < Len(data) /\ isModifier(At(data, pos))) THEN [token |-> token, pos |-> pos]
  ELSE LET nextMod == REVERSE_MODIFIERS(At(data, pos))
           num == decodeVarInt(data, pos + 1)
       IN  IF nextMod[1] \in Accidentals THEN [token |-> token, pos |-> pos]
           ELSE IF nextMod \in {Str(<<"*">>), Str(<<"/">>)}
             THEN Bind([token EXCEPT !.duration = <<nextMod \o NumToStr(num.value)>>],
                       LAMBDA t : decodeModifiers(data, pos + 1 + num.bytesRead, t))
           ELSE IF nextMod = Str(<<".">>)
             THEN Bind([token EXCEPT !.dots = 1], LAMBDA t : decodeModifiers(data, pos + 1, t))
           ELSE IF nextMod = Str(<<".", ".">>)
             THEN Bind([token EXCEPT !.dots = 2], LAMBDA t : decodeModifiers(data, pos + 1, t))
           ELSE IF nextMod = Str(<<"@">>)
             THEN Bind([token EXCEPT !.start = <<num.value>>],
                       LAMBDA t : decodeModifiers(data, pos + 1 + num.bytesRead, t))
           ELSE Bind([token EXCEPT !.duration = <<nextMod>>],
                     LAMBDA t : decodeModifiers(data, pos + 1, t))

\* a rest or note token with the modifiers that follow it and its value
decodeModified(data, pos, token) ==
  Bind(decodeModifiers(data, pos, token), LAMBDA r :
    [toks |-> <<[r.token EXCEPT !.value = reconstructValue(r.token)]>>, pos |-> r.pos])

\* the bytes data[pos], ..., data[pos + len - 1] as characters
ReadChars(data, pos, len) == [i \in 1..len |-> At(data, pos + i - 1)]

\* the optional count after dt, ht, tt and m
decodeCount(data, pos, cmd) ==
  IF pos < Len(data) /\ At(data, pos) = SPECIAL_HAS_COUNT
    THEN LET n == decodeVarInt(data, pos + 1)
         IN  [toks |-> <<Token("command", cmd \o NumToStr(n.value))>>,
              pos |-> pos + 1 + n.bytesRead]
    ELSE [toks |-> <<Token("command", cmd)>>, pos |-> pos]

\* the branch for a command byte, pos being the position after it
decodeCommand(data, pos, cmd) ==
  LET n1 == decodeVarInt(data, pos)
      n2 == decodeVarInt(data, pos + n1.bytesRead)
  IN  CASE cmd = "{" -> [toks |-> <<Token("block_start", Str(<<"{">>))>>, pos |-> pos]
        [] cmd = "}" -> [toks |-> <<Token("block_end", Str(<<"}">>))>>, pos |-> pos]
        [] cmd = "|" -> [toks |-> <<Token("pipe", Str(<<"|">>))>>, pos |-> pos]
        [] cmd = "r" -> decodeModified(data, pos, Token("rest", Str(<<"r">>)))
        [] cmd = "ks" ->
             [toks |-> <<Token("command", Str(<<"k", "s">>) \o NumToStr(n1.value))>>,
              pos |-> pos + n1.bytesRead]
        [] cmd = "ts" ->
             [toks |-> <<Token("command", Str(<<"t", "s">>) \o NumToStr(n1.value)
                                            \o Str(<<"/">>) \o NumToStr(n2.value))>>,
              pos |-> pos + n1.bytesRead + n2.bytesRead]
        [] cmd = "dt" -> decodeCount(data, pos, Str(<<"d", "t">>))
        [] cmd = "ht" -> decodeCount(data, pos, Str(<<"h", "t">>))
        [] cmd = "tt" -> decodeCount(data, pos, Str(<<"t", "t">>))
        [] cmd = "m" -> decodeCount(data, pos, Str(<<"m">>))
        [] cmd = "t" ->
             [toks |-> <<Token("command", Str(<<"t">>) \o NumToStr(n1.value))>>,
              pos |-> pos + n1.bytesRead]
        [] cmd = "/g" -> [toks |-> <<Token("command", Str(<<"/", "g">>))>>, pos |-> pos]
        [] cmd = "/c" -> [toks |-> <<Token("command", Str(<<"/", "c">>))>>, pos |-> pos]
        [] cmd = "/f" -> [toks |-> <<Token("command", Str(<<"/", "f">>))>>, pos |-> pos]
        [] cmd = "$" ->
             [toks |-> <<Token("macro", Str(<<"$">>) \o ReadChars(data, pos + 1, At(data, pos)))>>,
              pos |-> pos + 1 + At(data, pos)]

\* the note branches: noteByte is a note byte, pos the position after it
decodeNote(data, pos, noteByte, accidental) ==
  decodeModified(data, pos,
    IF isNoteOct5(noteByte)
      THEN [Token("note", <<>>) EXCEPT !.noteName = <<REVERSE_NOTES_OCT5(noteByte)>>,
                                       !.accidental = accidental]
      ELSE [Token("note", <<>>) EXCEPT !.noteName = <<decodeNoteOctave(noteByte).note>>,
                                       !.octave = <<decodeNoteOctave(noteByte).octave>>,
                                       !.accidental = accidental])

\* the string branch, pos being the position after STRING_START
decodeString(data, pos) ==
  LET len == At(data, pos) + 256 * At(data, pos + 1)
      content == ReadChars(data, pos + 2, len)
      escaped == ReplaceAll(ReplaceAll(ReplaceAll(content,
                   Str(<<"\\">>), Str(<<"\\", "\\">>)),
                   <<10>>, Str(<<"\\", "n">>)),
                   Str(<<"\"">>), Str(<<"\\", "\"">>))
  IN  [toks |-> <<Token("string", Str(<<"\"">>) \o escaped \o Str(<<"\"">>))>>,
       pos |-> pos + 2 + len]

\* one round of the loop over the command bytes
decodeStep(data, pos) ==
  LET byte == At(data, pos)
      isNote(b) == isNoteOct5(b) \/ isNoteWithOctave(b)
      skip(n) == [toks |-> <<>>, pos |-> pos + n]
  IN  IF byte = LITERAL_ESCAPE THEN skip(2)
      ELSE IF isCommand(byte) THEN decodeCommand(data, pos + 1, REVERSE_COMMANDS(byte))
      ELSE IF isModifier(byte) /\ REVERSE_MODIFIERS(byte)[1] \in Accidentals
                               /\ Len(REVERSE_MODIFIERS(byte)) = 1
        THEN IF pos + 1 >= Len(data) \/ ~isNote(At(data, pos + 1)) THEN skip(1)
             ELSE decodeNote(data, pos + 2, At(data, pos + 1), REVERSE_MODIFIERS(byte))
      ELSE IF isNote(byte) THEN decodeNote(data, pos + 1, byte, None)
      ELSE IF byte = SPECIAL_STRING_START THEN decodeString(data, pos + 1)
      ELSE skip(1)

RECURSIVE decodeLoop(_, _)
decodeLoop(data, pos) ==
  IF pos >= Len(data) THEN <<>>
  ELSE Bind(decodeStep(data, pos), LAMBDA r : r.toks \o decodeLoop(data, r.pos))

\* the frontmatter entries: count of them are read from pos on
RECURSIVE decodeFrontmatter(_, _, _)
decodeFrontmatter(data, pos, count) ==
  IF count = 0 THEN [toks |-> <<>>, pos |-> pos]
  ELSE LET keyLen == At(data, pos)
           key == ReadChars(data, pos + 1, keyLen)
           valLen == At(data, pos + 1 + keyLen)
           value == ReadChars(data, pos + 2 + keyLen, valLen)
           tok == [Token("frontmatter", Str(<<"#", " ">>) \o key \o Str(<<":", " ">>) \o value)
                     EXCEPT !.key = <<key>>]
       IN  Bind(decodeFrontmatter(data, pos + 2 + keyLen + valLen, count - 1), LAMBDA r :
             [toks |-> <<tok>> \o r.toks, pos |-> r.pos])

\* Variant of decodeTokens that does not look at the version
decodeTokens_anyVersion(data) ==
  Bind(data, LAMBDA d :
    IF At(d, 0) # 76 \/ ~InData(d, 0) \/ At(d, 1) # 77
      THEN [threw |-> TRUE, tokens |-> <<>>]
      ELSE Bind(IF (At(d, 2) % 16) % 2 = FLAG_HAS_FRONTMATTER
                  THEN decodeFrontmatter(d, 4, At(d, 3))
                  ELSE [toks |-> <<>>, pos |-> 3],
                LAMBDA fm : [threw |-> FALSE, tokens |-> fm.toks \o decodeLoop(d, fm.pos)]))

\* decodeTokens: threw tells that it threw an Error
decodeTokens(data) ==
  Bind(data, LAMBDA d :
    IF At(d, 0) # 76 \/ ~InData(d, 0) \/ At(d, 1) # 77 \/ At(d, 2) \div 16 > 1
      THEN [threw |-> TRUE, tokens |-> <<>>]
      ELSE Bind(IF (At(d, 2) % 16) % 2 = FLAG_HAS_FRONTMATTER
                  THEN decodeFrontmatter(d, 4, At(d, 3))
                  ELSE [toks |-> <<>>, pos |-> 3],
                LAMBDA fm : [threw |-> FALSE, tokens |-> fm.toks \o decodeLoop(d, fm.pos)]))

\* compress with useLz77 = true
compress(lml) == toBase64Url(compressLz77(encodeTokens(tokenize(lml))))

\* decompress with useLz77 = true: None when decompressLz77 or decodeTokens
\* threw
decompress(compressed) ==
  Bind(fromBase64Url(compressed), LAMBDA bytes :
    IF decompressLz77Throws(bytes) THEN None
    ELSE Bind(decodeTokens(decompressLz77(bytes)), LAMBDA r :
           IF r.threw THEN None ELSE <<reconstruct(r.tokens)>>))

\* ------------------------------------------------------------------
\* Specification SpecCodec: a notation text is written snippet by snippet
\* and then sent through compress and decompress
\* ------------------------------------------------------------------

MaxSnippets == 3

\* Pieces of notation the tokenizer accepts
Snippets ==
  { Str(<<"c">>), Str(<<"c", ".">>), Str(<<"c", ".", ".", ".">>),
    Str(<<"e", "+", "4", "/", "2">>), Str(<<"g", "*", "7", ".", ".">>),
    Str(<<"c", "@", "1", "4", "8">>), Str(<<"d", "-", "@", "3">>),
    Str(<<"r", "2">>), Str(<<"r", ".", ".", ".">>),
    Str(<<"k", "s", "-", "2">>), Str(<<"t", "s", "3", "/", "4">>), Str(<<"m", "1">>),
    Str(<<"$", "C">>), Str(<<"\"", "h", "\"">>), Str(<<"{">>), Str(<<"}">>), Str(<<"|">>),
    Str(<<"#", "k", ":", "v", "\n">>), Str(<<"#", "x", "\n">>) }

InitCodec ==
  /\ cx = [text |-> <<>>, n |-> 0, done |-> FALSE, compressed |-> <<>>, out |-> None]
  /\ gm = None
  /\ mstarts = <<>>
  /\ oc = None
  /\ bk = None
  /\ stack = <<>> /\ song = <<>> /\ nextId = 0 /\ phase = "codec" /\ ncmd = 0
  /\ last = <<>> /\ emitted = <<>> /\ ksv = <<>> /\ tr = <<>> /\ ch = <<>>

\* The user types one more piece of notation, separated by a space from
\* what is there
CxAppend ==
  /\ ~cx.done /\ cx.n < MaxSnippets
  /\ \E sn \in Snippets :
       cx' = [cx EXCEPT !.n = cx.n + 1,
                        !.text = (IF cx.n = 0 \/ cx.text[Len(cx.text)] = 10
                                    THEN cx.text ELSE cx.text \o <<32>>) \o sn]
  /\ UNCHANGED <<stack, song, nextId, phase, ncmd, last, emitted, ksv, tr, ch, gm, mstarts, oc, bk>>

\* The text is compressed to a share string, which is decompressed again
CxRoundTrip ==
  /\ ~cx.done
  /\ \E c \in {compress(cx.text)} :
       cx' = [cx EXCEPT !.done = TRUE, !.compressed = c, !.out = decompress(c)]
  /\ UNCHANGED <<stack, song, nextId, phase, ncmd, last, emitted, ksv, tr, ch, gm, mstarts, oc, bk>>

NextCodec == CxAppend \/ CxRoundTrip

SpecCodec == InitCodec /\ [][NextCodec]_vars

\* What a duration text says: None, or whether it divides and its number
DurationMeaning(duration) ==
  IF duration = None THEN None
  ELSE LET d == duration[1]
       IN  IF d[1] = Code("/") THEN <<TRUE, parseInt(Slice(d, 1, Len(d)))>>
           ELSE IF d[1] = Code("*") THEN <<FALSE, parseInt(Slice(d, 1, Len(d)))>>
           ELSE <<FALSE, parseInt(d)>>

\* The numbers written in a command, in order
RECURSIVE CommandNumbers(_, _)
CommandNumbers(value, p) ==
  IF p >= Len(value) THEN <<>>
  ELSE IF At(value, p) \in Digits
    THEN <<parseInt(Slice(value, p, Len(value)))>>
           \o CommandNumbers(value, RunEnd(value, p, Digits))
  ELSE IF At(value, p) = Code("-") /\ At(value, p + 1) \in Digits
    THEN <<parseInt(Slice(value, p, Len(value)))>>
           \o CommandNumbers(value, RunEnd(value, p + 1, Digits))
  ELSE CommandNumbers(value, p + 1)

\* What a token says, whatever its spelling
Semantic(token) ==
  LET base == [type |-> token.type, text |-> <<>>, accidental |-> None, octave |-> None,
               duration |-> None, dots |-> 0, start |-> None, numbers |-> <<>>]
  IN  CASE token.type = "note" ->
             [base EXCEPT !.text = token.noteName, !.accidental = token.accidental,
                          !.octave = token.octave,
                          !.duration = DurationMeaning(token.duration),
                          !.dots = token.dots, !.start = token.start]
        [] token.type = "rest" ->
             [base EXCEPT !.duration = DurationMeaning(token.duration),
                          !.dots = token.dots, !.start = token.start]
        [] token.type = "command" ->
             [base EXCEPT !.text = SelectSeq(token.value,
                                     LAMBDA c : c \notin Digits \cup {Code("-")}),
                          !.numbers = CommandNumbers(token.value, 0)]
        [] token.type = "string" -> [base EXCEPT !.text = StringContent(token.value)]
        [] token.type = "frontmatter" ->
             [base EXCEPT !.text = token.key[1] \o <<Code(":")>>
                                     \o extractFrontmatterValue(token.value)]
        [] OTHER -> [base EXCEPT !.text = token.value]

SemanticTokens(lml) ==
  Bind(tokenize(lml), LAMBDA ts : [i \in 1..Len(ts) |-> Semantic(ts[i])])

\* C6: after the round trip the text tokenizes to the same notes (with
\* accidental, octave, duration, dot count and start), rests, commands with
\* their numbers, macros, strings and frontmatter, in the same order, as
\* the text that was compressed.
C6_RoundTrip ==
  cx.done => cx.out # None /\ SemanticTokens(cx.out[1]) = SemanticTokens(cx.text)

\* ------------------------------------------------------------------
\* Specification SpecKsTwice: transposeKeySignature applied by a and then
\* by b, next to one application by a + b (SongNoteList.transpose called
\* twice on a song, against once)
\* ------------------------------------------------------------------

\* the largest single step, in semitones, up or down
MaxStep == 13

InitKsTwice ==
  /\ stack = <<>>
  /\ song = MultiTrackSong
  /\ nextId = 1
  /\ phase = "ks2"
  /\ ncmd = 0
  /\ last = [op |-> "start"]
  /\ emitted = <<>>
  /\ ksv \in {[currentKs |-> k, a |-> a, b |-> b,
                mid |-> None, result |-> None, direct |-> None] :
               k \in -7..7, a \in -MaxStep..MaxStep, b \in -MaxStep..MaxStep}
  /\ tr = None
  /\ ch = None
  /\ cx = None
  /\ gm = None
  /\ mstarts = <<>>
  /\ oc = None
  /\ bk = None

\* transposeKeySignature(k, a)
KsFirst ==
  /\ ksv.mid = None
  /\ ksv' = [ksv EXCEPT !.mid = <<transposeKeySignature(ksv.currentKs, ksv.a)>>]
  /\ UNCHANGED <<stack, song, nextId, phase, ncmd, last, emitted, tr, ch, cx, gm, mstarts, oc, bk>>

\* transposeKeySignature(transposeKeySignature(k, a), b)
KsSecond ==
  /\ ksv.mid # None
  /\ ksv.result = None
  /\ ksv' = [ksv EXCEPT !.result = <<transposeKeySignature(ksv.mid[1], ksv.b)>>]
  /\ UNCHANGED <<stack, song, nextId, phase, ncmd, last, emitted, tr, ch, cx, gm, mstarts, oc, bk>>

\* transposeKeySignature(k, a + b)
KsDirect ==
  /\ ksv.direct = None
  /\ ksv' = [ksv EXCEPT !.direct = <<transposeKeySignature(ksv.currentKs, ksv.a + ksv.b)>>]
  /\ UNCHANGED <<stack, song, nextId, phase, ncmd, last, emitted, tr, ch, cx, gm, mstarts, oc, bk>>

NextKsTwice == KsFirst \/ KsSecond \/ KsDirect

SpecKsTwice == InitKsTwice /\ [][NextKsTwice]_vars

\* Two key-signature counts name the same key when they differ by a
\* multiple of 12 steps on the circle of fifths
SameKey(x, y) == (x - y) % 12 = 0

\* C11: transposing a key signature by a and then by b gives the same key
\* as transposing it by a + b (the two counts are equal up to a multiple of
\* 12), and transposing by a multiple of 12 semitones returns the count
\* unchanged
C11_Composition ==
  /\ (ksv.result # None /\ ksv.direct # None)
       => SameKey(ksv.result[1], ksv.direct[1])
  /\ (ksv.mid # None /\ JsRem(ksv.a, 12) = 0) => ksv.mid[1] = ksv.currentKs
  /\ (ksv.direct # None /\ JsRem(ksv.a + ksv.b, 12) = 0)
       => ksv.direct[1] = ksv.currentKs

\* two steps that add up to an octave: the two-step result is a different
\* count for the same key as the untouched one-step result
C11_Witness ==
  /\ ksv.result # None
  /\ ksv.direct # None
  /\ JsRem(ksv.a, 12) # 0
  /\ ksv.a + ksv.b = 12
  /\ ksv.result[1] # ksv.direct[1]
  /\ ksv.direct[1] = ksv.currentKs

\* ------------------------------------------------------------------
\* song.ts: SongNoteList.getMeasures
\* ------------------------------------------------------------------

\* SongNote.getStop
SongNote_getStop(n) == QAdd(n.start, n.duration)

RECURSIVE MaxStop(_, _, _)
MaxStop(notes, i, acc) ==
  IF i > Len(notes) THEN acc
  ELSE Bind(IF QLt(acc, SongNote_getStop(notes[i])) THEN SongNote_getStop(notes[i]) ELSE acc,
            LAMBDA a : MaxStop(notes, i + 1, a))

\* getStopInBeats: Math.max over the notes' stops, 0 for an empty song
getStopInBeats(sg) ==
  IF Len(sg.notes) = 0 THEN QInt(0)
  ELSE MaxStop(sg.notes, 2, SongNote_getStop(sg.notes[1]))

\* getMeasures: "this.timeSignatures ?? [[0, 4]]"
TimeSigsOf(sg) ==
  IF sg.timeSignatures = <<>> THEN <<<<QInt(0), 4>>>> ELSE sg.timeSignatures

\* getMeasures: the inner while loop; sigIndex is the 1-based index of the
\* next entry of the log, the result is <<sigIndex, currentBeats>>
RECURSIVE ApplyTimeSigs(_, _, _, _)
ApplyTimeSigs(timeSigs, sigIndex, position, currentBeats) ==
  IF sigIndex <= Len(timeSigs) /\ QLe(timeSigs[sigIndex][1], QInt(position))
    THEN ApplyTimeSigs(timeSigs, sigIndex + 1, position, timeSigs[sigIndex][2])
    ELSE <<sigIndex, currentBeats>>

\* getMeasures, up to the outer while loop
getMeasuresEnter(sg) ==
  LET songEnd == getStopInBeats(sg)
  IN  IF songEnd = QInt(0)
        THEN [state |-> "returned", songEnd |-> songEnd, position |-> 0,
              sigIndex |-> 1, currentBeats |-> 4, measures |-> <<>>]
        ELSE [state |-> "loop", songEnd |-> songEnd, position |-> 0,
              sigIndex |-> 1, currentBeats |-> TimeSigsOf(sg)[1][2],
              measures |-> <<>>]

\* getMeasures: the test and one pass of the outer while loop
getMeasuresIterate(sg, g) ==
  IF QLt(QInt(g.position), g.songEnd)
    THEN LET a == ApplyTimeSigs(TimeSigsOf(sg), g.sigIndex, g.position, g.currentBeats)
         IN  [g EXCEPT !.sigIndex = a[1],
                       !.currentBeats = a[2],
                       !.measures = Append(@, [start |-> g.position, beats |-> a[2]]),
                       !.position = g.position + a[2]]
    ELSE [g EXCEPT !.state = "returned"]

\* ------------------------------------------------------------------
\* Specification SpecMeasures: compile() over ASTs of notes, time
\* signatures, measure commands and "|", then getMeasures() on the song
\* ------------------------------------------------------------------

\* the number of commands of the AST
MaxMsCmds == 5

\* the passes of the outer loop of getMeasures that are followed
MaxPasses == 8

\* ts3/4, ts6/8, ts0/4
MsTimeInputs == {<<3, 4>>, <<6, 8>>, <<0, 4>>}

MsRunning == phase = "compile" /\ ncmd < MaxMsCmds

\* c
MsNote ==
  /\ MsRunning
  /\ LET r == NoteCmd(Top, song, nextId, Name("C", None), NoOpts)
     IN  /\ Exec(r, [op |-> "note", rel |-> TRUE,
                     prev |-> Top.lastNotePitch, threw |-> r.err,
                     opts |-> NoOpts, before |-> Top, id |-> nextId])
         /\ emitted' = IF r.err THEN emitted
                       ELSE Append(emitted, <<nextId, Top.currentTrack>>)
  /\ nextId' = nextId + 1
  /\ UNCHANGED mstarts

MsTimeSignature ==
  /\ MsRunning
  /\ \E t \in MsTimeInputs :
       Exec(TimeSignatureCmd(Top, song, t[1], t[2]),
            [op |-> "timeSignature", perBeat |-> t[1], noteValue |-> t[2]])
  /\ UNCHANGED <<nextId, emitted, mstarts>>

\* m, m1
MsMeasure ==
  /\ MsRunning
  /\ \E m \in MeasureInputs :
       Exec(Measure(Top, song, m), [op |-> "measure", auto |-> m = None, before |-> Top])
  /\ mstarts' = Append(mstarts, Beats(stack'[Len(stack)].position))
  /\ UNCHANGED <<nextId, emitted>>

\* |
MsRestore ==
  /\ MsRunning
  /\ Exec(RestoreStartPosition(Top, song), [op |-> "restore"])
  /\ UNCHANGED <<nextId, emitted, mstarts>>

\* song.getMeasures() is called on the compiled song
GmCall ==
  /\ phase = "done"
  /\ gm = None
  /\ gm' = getMeasuresEnter(song)
  /\ UNCHANGED <<stack, song, nextId, phase, ncmd, last, emitted, ksv, tr, ch, cx, mstarts, oc, bk>>

\* one pass of its outer loop
GmIterate ==
  /\ gm # None
  /\ gm.state = "loop"
  /\ Len(gm.measures) < MaxPasses
  /\ gm' = getMeasuresIterate(song, gm)
  /\ UNCHANGED <<stack, song, nextId, phase, ncmd, last, emitted, ksv, tr, ch, cx, mstarts, oc, bk>>

NextMeasures ==
  \/ MsNote \/ MsTimeSignature \/ MsMeasure \/ MsRestore
  \/ Finish
  \/ GmCall \/ GmIterate

SpecMeasures == Init /\ [][NextMeasures]_vars

\* getMeasures is a synchronous loop: once called it keeps running
SpecMeasuresFair == SpecMeasures /\ WF_vars(GmIterate)

\* the beats of the latest entry of the log whose position is at or before
\* start, None when there is no such entry
LatestBeats(timeSigs, start) ==
  LET at == {i \in 1..Len(timeSigs) : QLe(timeSigs[i][1], QInt(start))}
  IN  IF at = {} THEN None
      ELSE <<timeSigs[CHOOSE i \in at : \A j \in at : j <= i][2]>>

\* what getMeasures returned is the list of measures the song calls for
MeasuresAsStated(sg, measures) ==
  IF Len(sg.notes) = 0 THEN measures = <<>>
  ELSE /\ measures # <<>> => measures[1].start = 0
       /\ \A i \in 2..Len(measures) :
            measures[i].start = measures[i - 1].start + measures[i - 1].beats
       /\ \/ getStopInBeats(sg) = QInt(0)
          \/ /\ measures # <<>>
             /\ LET l == measures[Len(measures)]
                IN  QLe(getStopInBeats(sg), QInt(l.start + l.beats))
       /\ \A i \in 1..Len(measures) :
            LatestBeats(TimeSigsOf(sg), measures[i].start) = <<measures[i].beats>>

C12_Shape ==
  (gm # None /\ gm.state = "returned") => MeasuresAsStated(song, gm.measures)

C12_Returns == (gm # None) ~> (gm # None /\ gm.state = "returned")

\* C12: getMeasures() returns, and what it returns is the empty list for a
\* song without notes and otherwise measures that start at beat 0, follow
\* one another without gap up to the song's end, each with the beats of the
\* latest time-signature entry at or before its start
C12_Measures == []C12_Shape /\ C12_Returns

\* ------------------------------------------------------------------
\* Specification SpecDecode: decompress() on share strings that nobody
\* compressed: a header of two magic bytes and a version byte, right or
\* wrong, followed by a few pieces of payload
\* ------------------------------------------------------------------

\* the number of payload pieces
MaxPieces == 2

\* "LM" is <<76, 77>>; the version is the high nibble of the third byte
Headers ==
  {<<m0, m1, vf>> : m0 \in {76, 0}, m1 \in {77, 76}, vf \in {0, 16, 18, 32, 240}}

\* c, "}", a short and a medium back-reference, an escaped literal, a byte
\* above the back-reference codes
Pieces ==
  {<<16>>, <<3>>, <<160, 0>>, <<192, 0, 2>>, <<255, 160>>, <<224>>}

InitDecode ==
  /\ stack = <<>>
  /\ song = MultiTrackSong
  /\ nextId = 1
  /\ phase = "decode"
  /\ ncmd = 0
  /\ last = [op |-> "start"]
  /\ emitted = <<>>
  /\ ksv = None
  /\ tr = None
  /\ ch = None
  /\ cx \in {[bytes |-> h, n |-> 0, done |-> FALSE, compressed |-> <<>>, out |-> None] :
              h \in Headers}
  /\ gm = None
  /\ mstarts = <<>>
  /\ oc = None
  /\ bk = None

DcAppend ==
  /\ ~cx.done
  /\ cx.n < MaxPieces
  /\ \E p \in Pieces : cx' = [cx EXCEPT !.n = cx.n + 1, !.bytes = cx.bytes \o p]
  /\ UNCHANGED <<stack, song, nextId, phase, ncmd, last, emitted, ksv, tr, ch, gm, mstarts, oc, bk>>

\* decompress(compressed) on the share string of the bytes
DcDecompress ==
  /\ ~cx.done
  /\ \E c \in {toBase64Url(cx.bytes)} :
       cx' = [cx EXCEPT !.done = TRUE, !.compressed = c, !.out = decompress(c)]
  /\ UNCHANGED <<stack, song, nextId, phase, ncmd, last, emitted, ksv, tr, ch, gm, mstarts, oc, bk>>

NextDecode == DcAppend \/ DcDecompress

SpecDecode == InitDecode /\ [][NextDecode]_vars

\* what decodeTokens is given: the bytes behind the share string
Decompressed(compressed) == decompressLz77(fromBase64Url(compressed))

BadMagic(d) == Len(d) < 2 \/ d[1] # 76 \/ d[2] # 77

UnsupportedVersion(d) == Len(d) >= 3 /\ d[3] \div 16 > 1

MaxBytes == 4

ByteInputs == {0, 1, 76, 128, 255}

InitBase64 ==
  /\ stack = <<>>
  /\ song = MultiTrackSong
  /\ nextId = 1
  /\ phase = "base64"
  /\ ncmd = 0
  /\ last = [op |-> "start"]
  /\ emitted = <<>>
  /\ ksv = None
  /\ tr = None
  /\ ch = None
  /\ cx = [bytes |-> <<>>, done |-> FALSE, compressed |-> <<>>, out |-> <<>>]
  /\ gm = None
  /\ mstarts = <<>>
  /\ oc = None
  /\ bk = None

B64Append ==
  /\ ~cx.done
  /\ Len(cx.bytes) < MaxBytes
  /\ \E b \in ByteInputs : cx' = [cx EXCEPT !.bytes = Append(@, b)]
  /\ UNCHANGED <<stack, song, nextId, phase, ncmd, last, emitted, ksv, tr, ch, gm, mstarts, oc, bk>>

\* fromBase64Url(toBase64Url(bytes))
B64RoundTrip ==
  /\ ~cx.done
  /\ \E c \in {toBase64Url(cx.bytes)} :
       cx' = [cx EXCEPT !.done = TRUE, !.compressed = c, !.out = fromBase64Url(c)]
  /\ UNCHANGED <<stack, song, nextId, phase, ncmd, last, emitted, ksv, tr, ch, gm, mstarts, oc, bk>>

NextBase64 == B64Append \/ B64RoundTrip

SpecBase64 == InitBase64 /\ [][NextBase64]_vars

\* C14: decoding the base64url encoding of a byte sequence gives back the
\* same bytes, whatever the length modulo 3, and every character of the
\* encoding is one of the 64 of the alphabet (no padding character)
C14_Base64RoundTrip ==
  cx.done =>
    /\ cx.out = cx.bytes
    /\ \A i \in 1..Len(cx.compressed) : cx.compressed[i] \in 0..63

\* ------------------------------------------------------------------
\* The track of the generated notes (specification SpecChords)
\* ------------------------------------------------------------------

\* static displayName of the generator classes
displayName(strategy) ==
  CASE strategy = "Root" -> "Root"
    [] strategy = "Triad" -> "Triad"
    [] strategy = "Root5" -> "Root+5"
    [] strategy = "Arp" -> "Arp"
    [] strategy = "BossaNova" -> "Bossa Nova"

\* the tracks the melody was written to, and the index right after them
ExplicitTracks == {emitted[i][2] : i \in DOMAIN emitted}

AfterExplicitTracks ==
  IF ExplicitTracks = {} THEN 0
  ELSE (CHOOSE m \in ExplicitTracks : \A t \in ExplicitTracks : t <= m) + 1

\* the notes addChords added to the song
GeneratedNotes ==
  {song.notes[i] : i \in {j \in DOMAIN song.notes :
                            \A k \in DOMAIN emitted : emitted[k][1] # song.notes[j].id}}

ShapeTexts ==
  << <<"M", Str(<<"M">>)>>, <<"m", Str(<<"m">>)>>,
     <<"dim", Str(<<"d", "i", "m">>)>>, <<"dimM7", Str(<<"d", "i", "m", "M", "7">>)>>,
     <<"dim7", Str(<<"d", "i", "m", "7">>)>>, <<"aug", Str(<<"a", "u", "g">>)>>,
     <<"augM7", Str(<<"a", "u", "g", "M", "7">>)>>, <<"M6", Str(<<"M", "6">>)>>,
     <<"m6", Str(<<"m", "6">>)>>, <<"M7", Str(<<"M", "7">>)>>, <<"7", Str(<<"7">>)>>,
     <<"m7", Str(<<"m", "7">>)>>, <<"m7b5", Str(<<"m", "7", "b", "5">>)>>,
     <<"mM7", Str(<<"m", "M", "7">>)>>, <<"Q", Str(<<"Q">>)>>,
     <<"Qb4", Str(<<"Q", "b", "4">>)>> >>

\* a key Chord.SHAPES inherits from Object.prototype: "in" finds it too
InheritedTexts == << <<"toString", Str(<<"t", "o", "S", "t", "r", "i", "n", "g">>)>> >>

\* shape in Chord.SHAPES: the key found, None when there is none
ShapeIn(texts, shape) ==
  IF \E i \in DOMAIN texts : texts[i][2] = shape
    THEN <<texts[CHOOSE i \in DOMAIN texts : texts[i][2] = shape][1]>>
    ELSE None

\* [a-gA-G]
RootLetterCodes == (97..103) \cup (65..71)

\* coerceChord: the regular expression is not anchored, it matches at the
\* first root letter of the name; None for undefined
coerceChord(macro) ==
  LET at == {i \in DOMAIN macro : macro[i] \in RootLetterCodes}
  IN  IF at = {} THEN None
      ELSE LET i == CHOOSE k \in at : \A j \in at : k <= j
               hasAcc == i < Len(macro) /\ macro[i + 1] \in {Code("#"), Code("b")}
               upper == IF macro[i] >= 97 THEN macro[i] - 32 ELSE macro[i]
               root == [letter |-> Chars[upper - 31],
                        acc |-> IF ~hasAcc THEN 0
                                ELSE IF macro[i + 1] = Code("#") THEN 1 ELSE -1]
               rest == SubSeq(macro, i + (IF hasAcc THEN 2 ELSE 1), Len(macro))
               shape == ShapeIn(ShapeTexts \o InheritedTexts,
                                IF rest = <<>> THEN Str(<<"M">>) ELSE rest)
           IN  IF shape = None THEN None ELSE <<root, shape[1]>>

\* ------------------------------------------------------------------
\* Specification SpecMacro: compile() over ASTs of macros and notes
\* ------------------------------------------------------------------

\* the number of commands of the AST
MaxMcCmds == 3

\* $C $Am7 $Bb $bm $Cx $xC $x $CtoString
MacroNames ==
  { Str(<<"C">>), Str(<<"A", "m", "7">>), Str(<<"B", "b">>), Str(<<"b", "m">>),
    Str(<<"C", "x">>), Str(<<"x", "C">>), Str(<<"x">>),
    Str(<<"C", "t", "o", "S", "t", "r", "i", "n", "g">>) }

McRunning == phase = "compile" /\ ncmd < MaxMcCmds

McMacro ==
  /\ McRunning
  /\ \E name \in MacroNames :
       Exec(MacroCmd(Top, song, coerceChord(name)),
            [op |-> "macro", name |-> name, before |-> Len(song.autoChords)])
  /\ UNCHANGED <<nextId, emitted, mstarts>>

\* c, c/2
McNote ==
  /\ McRunning
  /\ \E o \in {NoOpts, Opts(Q(1, 2), 0, None, "none")} :
       LET r == NoteCmd(Top, song, nextId, Name("C", None), o)
       IN  /\ Exec(r, [op |-> "note", rel |-> TRUE,
                       prev |-> Top.lastNotePitch, threw |-> r.err,
                       opts |-> o, before |-> Top, id |-> nextId])
           /\ emitted' = IF r.err THEN emitted
                         ELSE Append(emitted, <<nextId, Top.currentTrack>>)
  /\ nextId' = nextId + 1
  /\ UNCHANGED mstarts

NextMacro == McMacro \/ McNote \/ Finish

SpecMacro == Init /\ [][NextMacro]_vars

\* a root letter, an optional accidental, then nothing or a chord quality
IsChordName(name) ==
  /\ name # <<>>
  /\ name[1] \in RootLetterCodes
  /\ LET hasAcc == Len(name) > 1 /\ name[2] \in {Code("#"), Code("b")}
         rest(k) == SubSeq(name, k, Len(name))
     IN  \/ rest(2) = <<>> \/ ShapeIn(ShapeTexts, rest(2)) # None
         \/ hasAcc /\ (rest(3) = <<>> \/ ShapeIn(ShapeTexts, rest(3)) # None)

\* C16: a macro appends a chord marker only when its name is a root letter
\* with optional accidental followed by nothing or a known chord quality;
\* any other macro appends nothing, and no macro makes compile() fail
C16_ChordMacro ==
  /\ last.op = "macro" =>
       (Len(song.autoChords) > last.before => IsChordName(last.name))
  /\ phase # "error"

\* ------------------------------------------------------------------
\* The "m" command (specification Spec)
\* ------------------------------------------------------------------

\* C17, as stated: on an auto-increment "m" the measure counter goes up by
\* 1, the cursor becomes the larger of the next auto boundary and the
\* current position, and the next auto boundary becomes the new position
\* plus ticksPerMeasure
C17_AutoMeasureMax ==
  (last.op = "measure" /\ last.auto) =>
    /\ Top.lastMeasure = last.before.lastMeasure + 1
    /\ Top.position = IF QLt(last.before.nextMeasureStart, last.before.position)
                        THEN last.before.position ELSE last.before.nextMeasureStart
    /\ Top.nextMeasureStart = QAdd(Top.position, Top.ticksPerMeasure)

\* C17, as the code has it: on an auto-increment "m" the measure counter
\* goes up by 1, the cursor always becomes the next auto boundary, also
\* when that moves it backward, and the next auto boundary becomes the new
\* position plus ticksPerMeasure
C17_AutoMeasure ==
  (last.op = "measure" /\ last.auto) =>
    /\ Top.lastMeasure = last.before.lastMeasure + 1
    /\ Top.position = last.before.nextMeasureStart
    /\ Top.nextMeasureStart = QAdd(Top.position, Top.ticksPerMeasure)

\* an auto-increment "m" after the notes went past the boundary
C17_Witness ==
  /\ last.op = "measure"
  /\ last.auto
  /\ QLt(last.before.nextMeasureStart, last.before.position)
  /\ QLt(Top.position, last.before.position)

\* ------------------------------------------------------------------
\* What a closing block leaves in its parent (specification Spec)
\* ------------------------------------------------------------------

\* C18: when a block closes the parent takes the cursor position and the
\* last resolved pitch from it, and its track selection, ticks per note,
\* ticks per measure and measure counter are what they were before the
\* block was entered
C18_BlockFrame ==
  last.op = "blockClose" =>
    /\ Top.position = last.child.position
    /\ Top.lastNotePitch = last.child.lastNotePitch
    /\ Top.currentTrack = last.parent.currentTrack
    /\ Top.ticksPerNote = last.parent.ticksPerNote
    /\ Top.ticksPerMeasure = last.parent.ticksPerMeasure
    /\ Top.lastMeasure = last.parent.lastMeasure

\* ------------------------------------------------------------------
\* The compiler's measures against getMeasures (specification
\* SpecMeasures)
\* ------------------------------------------------------------------

\* C19: every beat an "m" command moved the cursor to, if the song reaches
\* beyond it, is the start of one of the measures getMeasures() returns
C19_MeasuresAgree ==
  (gm # None /\ gm.state = "returned") =>
    \A i \in DOMAIN mstarts :
      QLt(mstarts[i], gm.songEnd) =>
        \E k \in DOMAIN gm.measures : QInt(gm.measures[k].start) = mstarts[i]
\* ---------------------------------------------------------------------
\* The rest command
\* ---------------------------------------------------------------------

\* the last command was a rest and the compilation went on
AfterRest == last.op = "rest" /\ phase = "compile"

\* the rest of the last command carries "@N"
RestHasStart == last.opts.start # None

\* the cursor after a rest without a start: the duration of a note with the
\* same timing, rounded to a whole tick, past the cursor before
RestAdvanced ==
  Top.position =
    QAdd(last.before.position,
         QInt(QRound(DurationTicks(last.before, last.opts))))

\* C20: a rest that carries an explicit start @N, for every N >= 0, leaves
\* the cursor where it was; a rest without a start moves the cursor forward
\* by its duration, dots included; in both cases no note is emitted.
C20_RestFrame ==
  AfterRest =>
    /\ Len(song.notes) = last.notes
    /\ IF RestHasStart THEN Top.position = last.before.position
                       ELSE RestAdvanced

\* ---------------------------------------------------------------------
\* The start of a note
\* ---------------------------------------------------------------------

\* the last command was a note that was added to the song
AfterNote == last.op = "note" /\ ~last.threw /\ phase = "compile"

\* the note the last command added: the last one of the flat list
AddedNote == song.notes[Len(song.notes)]

\* C21: a note with an explicit start @N is emitted with start N beats and
\* leaves the cursor where it was; a note without one is emitted with the
\* cursor position as its start and moves the cursor forward by exactly the
\* note's duration.
C21_NoteStart ==
  AfterNote =>
    /\ Len(song.notes) > 0 /\ AddedNote.id = last.id
    /\ IF last.opts.start # None
         THEN /\ AddedNote.start = QInt(last.opts.start[1])
              /\ Top.position = last.before.position
         ELSE /\ AddedNote.start = Beats(last.before.position)
              /\ Top.position =
                   QAdd(last.before.position,
                        QMul(AddedNote.duration, QInt(TICKS_PER_BEAT)))

\* a note "@0" and a note "@1" were each added while the cursor was elsewhere
C21_Witness ==
  /\ AfterNote
  /\ last.opts.start = <<0>>
  /\ last.before.position # QInt(0)
  /\ AddedNote.start = QInt(0)
  /\ \E i \in DOMAIN song.notes : song.notes[i].start = QInt(1)

\* ---------------------------------------------------------------------
\* Specification SpecOctave: findClosestOctave is called once with a note
\* letter (with "#", "b" or nothing) and a reference pitch
\* ---------------------------------------------------------------------

\* the lowest reference pitch whose three candidate names all parse (C1)
MinReferencePitch == 2 * OCTAVE_SIZE

\* the highest reference pitch explored
MaxReferencePitch == 95

InitOctave ==
  /\ stack = <<>>
  /\ song = MultiTrackSong
  /\ nextId = 1
  /\ phase = "octave"
  /\ ncmd = 0
  /\ last = [op |-> "start"]
  /\ emitted = <<>>
  /\ ksv = None
  /\ tr = None
  /\ ch = None
  /\ cx = None
  /\ gm = None
  /\ mstarts = <<>>
  /\ oc \in {[noteLetter |-> Note(l, a, 0), referencePitch |-> p,
               result |-> None] :
               l \in Letters, a \in {-1, 0, 1},
               p \in MinReferencePitch..MaxReferencePitch}
  /\ bk = None

OcResolve ==
  /\ oc # None /\ oc.result = None
  /\ oc' = [oc EXCEPT !.result =
              <<findClosestOctave(oc.noteLetter, oc.referencePitch)>>]
  /\ UNCHANGED <<stack, song, nextId, phase, ncmd, last, emitted, ksv, tr, ch, cx, gm, mstarts, bk>>

NextOctave == OcResolve

SpecOctave == InitOctave /\ [][NextOctave]_vars

\* the octave of the reference pitch (MIDI: C4 = 60)
OcRefOctave == (oc.referencePitch \div OCTAVE_SIZE) - 1

\* the distance from the reference pitch of the letter placed in octave o
OcDist(o) == Abs(parseNote([oc.noteLetter EXCEPT !.oct = o]) - oc.referencePitch)

\* the octaves 0..9 at which the letter is exactly 6 semitones from the
\* reference pitch
OcTied == {o \in 0..9 : OcDist(o) = 6}

\* the call returned and the letter is equidistant above and below
OcTie == oc # None /\ oc.result # None /\ Cardinality(OcTied) = 2

\* C22 as stated: in a tie the resolver chooses the lower octave
C22_TieLower ==
  OcTie => \A o \in OcTied : oc.result[1].oct <= o

\* C22: when a note without an octave digit is exactly 6 semitones above and
\* below the reference pitch, the resolver keeps the octave number of the
\* reference pitch: the lower placement when the tie is between that octave
\* and the one above, the higher placement when it is between that octave
\* and the one below.
C22_TieKeepsReferenceOctave ==
  OcTie =>
    /\ oc.result[1].oct = OcRefOctave
    /\ oc.result[1].oct \in OcTied

\* a tie resolved upward (C4 and F#) and one resolved downward
C22_Witness ==
  /\ OcTie
  /\ oc.referencePitch = 60
  /\ oc.noteLetter.letter = "F" /\ oc.noteLetter.acc = 1
  /\ parseNote(oc.result[1]) = 66

\* ---------------------------------------------------------------------
\* Specification SpecLz: compressLz77 and decompressLz77 on short byte
\* sequences, and encodeBackRef and decodeBackRef on every match findMatch
\* can return.  findMatch looks at the positions i from pos - WINDOW_SIZE
\* to pos - 1 and counts at most MAX_MATCH_MEDIUM equal bytes, so a match
\* has an offset pos - i of 1..WINDOW_SIZE and a length of
\* MIN_MATCH..MAX_MATCH_MEDIUM.
\* ---------------------------------------------------------------------

\* the longest byte sequence compressed
MaxLzBytes == 7

\* a plain byte, a short code, a medium code and the escape byte
LzBytes == {97, LZ77_SHORT_MIN, 200, LITERAL_ESCAPE}

InitLz ==
  /\ stack = <<>>
  /\ song = MultiTrackSong
  /\ nextId = 1
  /\ phase = "lz"
  /\ ncmd = 0
  /\ last = [op |-> "start"]
  /\ emitted = <<>>
  /\ ksv = None
  /\ tr = None
  /\ ch = None
  /\ cx = [data |-> <<>>, done |-> FALSE, compressed |-> <<>>, out |-> <<>>,
           match |-> None, decoded |-> None]
  /\ gm = None
  /\ mstarts = <<>>
  /\ oc = None
  /\ bk = None

\* one more byte of input
LzAppend ==
  /\ ~cx.done /\ Len(cx.data) < MaxLzBytes
  /\ \E b \in LzBytes : cx' = [cx EXCEPT !.data = Append(@, b)]
  /\ UNCHANGED <<stack, song, nextId, phase, ncmd, last, emitted, ksv, tr, ch, gm, mstarts, oc, bk>>

\* decompressLz77(compressLz77(data))
LzRoundTrip ==
  /\ ~cx.done
  /\ \E c \in {compressLz77(cx.data)} :
       cx' = [cx EXCEPT !.done = TRUE, !.compressed = c, !.out = decompressLz77(c)]
  /\ UNCHANGED <<stack, song, nextId, phase, ncmd, last, emitted, ksv, tr, ch, gm, mstarts, oc, bk>>

\* compressLz77 encodes a match that findMatch returned and decompressLz77
\* decodes the bytes
LzBackRef ==
  /\ ~cx.done /\ cx.data = <<>>
  /\ \E offset \in 1..WINDOW_SIZE, length \in MIN_MATCH..MAX_MATCH_MEDIUM :
       \E c \in {encodeBackRef(offset, length)} :
         cx' = [cx EXCEPT !.done = TRUE, !.compressed = c,
                          !.match = <<[offset |-> offset, length |-> length]>>,
                          !.decoded = <<decodeBackRef(c, 0)>>]
  /\ UNCHANGED <<stack, song, nextId, phase, ncmd, last, emitted, ksv, tr, ch, gm, mstarts, oc, bk>>

NextLz == LzAppend \/ LzRoundTrip \/ LzBackRef

SpecLz == InitLz /\ [][NextLz]_vars

\* a byte sequence went through compressLz77 and decompressLz77
LzTripped == cx.done /\ cx.match = None

\* a match went through encodeBackRef and decodeBackRef
LzDecoded == cx.done /\ cx.match # None

\* the back-reference is read back as it was written, and to its end
BackRefSame ==
  /\ cx.decoded[1].offset = cx.match[1].offset
  /\ cx.decoded[1].length = cx.match[1].length
  /\ cx.decoded[1].bytesRead = Len(cx.compressed)
  /\ isLz77(cx.compressed[1])

\* C23: decompressLz77(compressLz77(d)) = d for every byte sequence d: every
\* back-reference the compressor emits decodes to the same offset and
\* length, and every literal byte that is a back-reference code or the
\* escape byte is written escaped and read back as that literal.
C23_Lz77RoundTrip ==
  /\ LzTripped => cx.out = cx.data
  /\ LzDecoded => BackRefSame

\* ---------------------------------------------------------------------
\* Whole ticks
\* ---------------------------------------------------------------------

\* a beat value that is a whole number of ticks
WholeTicks(beats) == QIsInt(QMul(beats, QInt(TICKS_PER_BEAT)))

\* C24: after every command the cursor position is a non-negative whole
\* number of ticks, and the start and the duration of every note of the
\* song are whole numbers of ticks.
C24_WholeTicks ==
  (phase = "compile" /\ Len(stack) > 0) =>
    /\ QIsInt(Top.position)
    /\ QLe(QInt(0), Top.position)
    /\ \A i \in DOMAIN song.notes :
         /\ WholeTicks(song.notes[i].start)
         /\ WholeTicks(song.notes[i].duration)

\* ---------------------------------------------------------------------
\* Termination of getMeasures
\* ---------------------------------------------------------------------

\* getMeasures is running its outer loop
GmLooping == gm # None /\ gm.state = "loop"

\* every pass of the outer loop that does not leave it moves the walk
\* position strictly forward
C25_Advances ==
  [][(GmLooping /\ gm' # gm /\ gm'.state = "loop") => gm'.position > gm.position]_vars

\* every call of getMeasures leaves its loop
C25_Leaves == [](GmLooping => <>(~GmLooping))

\* C25: getMeasures() terminates for every song compiled from parsable
\* text: the walk position strictly increases on every pass until it
\* reaches the song's end, whatever time signatures the text holds.
C25_Terminates == C25_Advances /\ C25_Leaves

\* ---------------------------------------------------------------------
\* Specification SpecBlocks: compile() over ASTs of notes, chord macros
\* and "|", then findChordBlocks() on the song
\* ---------------------------------------------------------------------

\* the number of commands of the AST
MaxCbCmds == 6

CbRunning == phase = "compile" /\ ncmd < MaxCbCmds

\* $C, $G
CbMacro ==
  /\ CbRunning
  /\ \E name \in {Str(<<"C">>), Str(<<"G">>)} :
       Exec(MacroCmd(Top, song, coerceChord(name)),
            [op |-> "macro", name |-> name, before |-> Len(song.autoChords)])
  /\ UNCHANGED <<nextId, emitted, mstarts>>

\* c
CbNote ==
  /\ CbRunning
  /\ LET r == NoteCmd(Top, song, nextId, Name("C", None), NoOpts)
     IN  /\ Exec(r, [op |-> "note", rel |-> TRUE,
                     prev |-> Top.lastNotePitch, threw |-> r.err,
                     opts |-> NoOpts, before |-> Top, id |-> nextId])
         /\ emitted' = IF r.err THEN emitted
                       ELSE Append(emitted, <<nextId, Top.currentTrack>>)
  /\ nextId' = nextId + 1
  /\ UNCHANGED mstarts

\* |
CbRestore ==
  /\ CbRunning
  /\ Exec(RestoreStartPosition(Top, song), [op |-> "restore"])
  /\ UNCHANGED <<nextId, emitted, mstarts>>

\* new AutoChords(song).findChordBlocks() on the compiled song
CbFind ==
  /\ phase = "done"
  /\ ch = None
  /\ song.autoChords # <<>>
  /\ ~findChordBlocksThrows(song)
  /\ ch' = [blocks |-> findChordBlocks(song)]
  /\ UNCHANGED <<stack, song, nextId, phase, ncmd, last, emitted, ksv, tr, cx, gm, mstarts, oc, bk>>

NextBlocks == CbMacro \/ CbNote \/ CbRestore \/ Finish \/ CbFind

SpecBlocks == Init /\ [][NextBlocks]_vars

\* findChordBlocks returned
BlocksFound == phase = "done" /\ ch # None

\* no two blocks share a beat
NonOverlapping(blocks) ==
  \A j, k \in DOMAIN blocks :
    j # k => (QLe(blocks[j].stop, blocks[k].start) \/ QLe(blocks[k].stop, blocks[j].start))

\* the end of the measure that contains the beat
MeasureEndOf(sg, beat) ==
  QMul(QInt(QFloor(QDiv(beat, BeatsPerMeasure(sg))) + 1), BeatsPerMeasure(sg))

\* the least of a non-empty set of beats
LeastBeat(B) == CHOOSE b \in B : \A c \in B : QLe(b, c)

\* the blocks of the markers when the span of marker i ends at the measure's
\* end or at the least beat of the markers in After[i]; a marker with an
\* empty span has no block
BlocksAsStated(sg, After) ==
  LET mk == sg.autoChords
      stop(i) ==
        LET e == MeasureEndOf(sg, mk[i][1])
            B == {mk[j][1] : j \in After[i]}
        IN  IF B = {} THEN e ELSE QMin(e, LeastBeat(B))
  IN  {[start |-> mk[i][1], stop |-> stop(i), chord |-> mk[i][2]] :
         i \in {k \in DOMAIN mk : QLt(mk[k][1], stop(k))}}

\* "the next marker" read as the one written next in the text
NextWritten(sg) ==
  [i \in DOMAIN sg.autoChords |-> {i + 1} \cap DOMAIN sg.autoChords]

\* "the next marker" read as the one that follows in time (among markers at
\* the same beat, the one written later)
NextInTime(sg) ==
  LET mk == sg.autoChords
  IN  [i \in DOMAIN mk |->
         {j \in DOMAIN mk : QLt(mk[i][1], mk[j][1]) \/ (mk[j][1] = mk[i][1] /\ j > i)}]

BlockSet == {ch.blocks[k] : k \in DOMAIN ch.blocks}

\* C26: the chord blocks computed from a song's chord markers do not
\* overlap, and each marker's block runs from the marker's own beat to the
\* earlier of the next marker's beat and the end of the measure that
\* contains the marker.
C26_ChordBlocks ==
  BlocksFound =>
    /\ NonOverlapping(ch.blocks)
    /\ \/ BlockSet = BlocksAsStated(song, NextWritten(song))
       \/ BlockSet = BlocksAsStated(song, NextInTime(song))

\* ---------------------------------------------------------------------
\* Specification SpecLogs: compile() over ASTs without blocks: every
\* command is at top level
\* ---------------------------------------------------------------------

\* the number of commands of the AST
MaxLgCmds == 4

LgRunning == phase = "compile" /\ ncmd < MaxLgCmds

\* c
LgNote ==
  /\ LgRunning
  /\ LET r == NoteCmd(Top, song, nextId, Name("C", None), NoOpts)
     IN  /\ Exec(r, [op |-> "note", rel |-> TRUE,
                     prev |-> Top.lastNotePitch, threw |-> r.err,
                     opts |-> NoOpts, before |-> Top, id |-> nextId])
         /\ emitted' = IF r.err THEN emitted
                       ELSE Append(emitted, <<nextId, Top.currentTrack>>)
  /\ nextId' = nextId + 1
  /\ UNCHANGED mstarts

\* |
LgRestore ==
  /\ LgRunning
  /\ Exec(RestoreStartPosition(Top, song), [op |-> "restore"])
  /\ UNCHANGED <<nextId, emitted, mstarts>>

\* m, m1
LgMeasure ==
  /\ LgRunning
  /\ \E m \in MeasureInputs :
       Exec(Measure(Top, song, m), [op |-> "measure", auto |-> m = None, before |-> Top])
  /\ mstarts' = Append(mstarts, Beats(stack'[Len(stack)].position))
  /\ UNCHANGED <<nextId, emitted>>

\* ks-2, ks3
LgKeySignature ==
  /\ LgRunning
  /\ \E k \in {-2, 3} : Exec(KeySignatureCmd(Top, song, k), [op |-> "keySignature"])
  /\ UNCHANGED <<nextId, emitted, mstarts>>

\* ts3/4, ts6/8
LgTimeSignature ==
  /\ LgRunning
  /\ \E t \in {<<3, 4>>, <<6, 8>>} :
       Exec(TimeSignatureCmd(Top, song, t[1], t[2]), [op |-> "timeSignature"])
  /\ UNCHANGED <<nextId, emitted, mstarts>>

\* $C
LgMacro ==
  /\ LgRunning
  /\ Exec(MacroCmd(Top, song, coerceChord(Str(<<"C">>))), [op |-> "macro"])
  /\ UNCHANGED <<nextId, emitted, mstarts>>

\* "s"
LgString ==
  /\ LgRunning
  /\ Exec(StringCmd(Top, song, "s"), [op |-> "string"])
  /\ UNCHANGED <<nextId, emitted, mstarts>>

NextLogs ==
  \/ LgNote \/ LgRestore \/ LgMeasure
  \/ LgKeySignature \/ LgTimeSignature \/ LgMacro \/ LgString
  \/ Finish

SpecLogs == Init /\ [][NextLogs]_vars

\* a log of <<beat, ...>> entries in ascending order of beat
SortedByBeat(log) ==
  \A i, j \in DOMAIN log : i < j => QLe(log[i][1], log[j][1])

\* C27: after compilation every change log of the song (time signatures,
\* key signatures, strings, chord markers) is sorted by beat ascending
\* when all its entries come from commands at top level.
C27_LogsSorted ==
  phase = "done" =>
    /\ SortedByBeat(song.timeSignatures)
    /\ SortedByBeat(song.keySignatures)
    /\ SortedByBeat(song.strings)
    /\ SortedByBeat(song.autoChords)

\* ---------------------------------------------------------------------
\* The flat list of a transposed multi-track song
\* ---------------------------------------------------------------------

\* a non-zero transposition was made
Transposed == phase = "transposed" /\ tr.amount # 0

\* note b is note a moved by the amount, at the same time
ShiftedBy(a, b, amount) ==
  /\ parseNote(b.note) = parseNote(a.note) + amount
  /\ b.start = a.start
  /\ b.duration = a.duration

\* the tracks of the result have the indices and lengths of the source's
SameTracks ==
  /\ DOMAIN tr.result.tracks = DOMAIN song.tracks
  /\ \A t \in DOMAIN song.tracks :
       Len(tr.result.tracks[t].notes) = Len(song.tracks[t].notes)

\* the notes of the tracks idxs, track after track in ascending index
RECURSIVE NotesByTrack(_, _)
NotesByTrack(sg, idxs) ==
  IF idxs = {} THEN <<>>
  ELSE sg.tracks[MinOf(idxs)].notes \o NotesByTrack(sg, idxs \ {MinOf(idxs)})

\* C28 as stated: the flat list of the result has the notes of the source's
\* flat list in the same order, each shifted by the amount
C28_TransposeInOrder ==
  Transposed =>
    /\ Len(tr.result.notes) = Len(song.notes)
    /\ \A i \in DOMAIN song.notes :
         i \in DOMAIN tr.result.notes
           /\ ShiftedBy(song.notes[i], tr.result.notes[i], tr.amount)
    /\ SameTracks

\* C28: for a multi-track song whose notes were all pushed with a track and
\* a non-zero amount s, transpose(s) returns a song whose tracks have the
\* same indices and lengths, the j-th note of a track being the source
\* track's j-th note shifted by s with start and duration unchanged, and
\* whose flat list has as many notes as the source's and lists them track
\* after track in ascending track index, not in the source's order.
C28_TransposeByTrack ==
  Transposed =>
    /\ SameTracks
    /\ \A t \in DOMAIN song.tracks :
         \A j \in DOMAIN song.tracks[t].notes :
           ShiftedBy(song.tracks[t].notes[j], tr.result.tracks[t].notes[j], tr.amount)
    /\ Len(tr.result.notes) = Len(song.notes)
    /\ tr.result.notes = NotesByTrack(tr.result, DOMAIN tr.result.tracks)

\* a song whose notes alternate between two tracks was transposed: the
\* result's second note is the source's third
C28_Witness ==
  /\ Transposed
  /\ emitted = <<<<1, 0>>, <<2, 2>>, <<3, 0>>>>
  /\ ShiftedBy(song.notes[3], tr.result.notes[2], tr.amount)

\* ---------------------------------------------------------------------
\* song.ts: the bucket index of SongNoteList and matchNoteFast.  A list is
\* the sequence of its notes; a note index is 1-based here.  The buckets
\* object is a function on BucketIdxs, a key it does not hold being the
\* empty sequence.
\* ---------------------------------------------------------------------

\* SongNoteList.bucketSize, in beats
bucketSize == 8

QCeil(a) == -((-a[1]) \div a[2])

QAbs(a) == <<Abs(a[1]), a[2]>>

\* the bucket keys that the notes and beats explored can touch
BucketIdxs == -1..3

\* getBucketRange: <<left, right>>
getBucketRange(start, stop) ==
  <<QFloor(QDiv(start, QInt(bucketSize))), QCeil(QDiv(stop, QInt(bucketSize)))>>

\* buildBuckets: forEach visits the notes in index order, so every bucket
\* lists in ascending order the indices of the notes whose range holds it
buildBuckets(notes) ==
  [b \in BucketIdxs |->
     SelectSeq([i \in 1..Len(notes) |-> i], LAMBDA idx :
       LET r == getBucketRange(notes[idx].start, SongNote_getStop(notes[idx]))
       IN  r[1] <= b /\ b < r[2])]

\* adjacentBuckets
adjacentBuckets(beat) == getBucketRange(QSub(beat, QInt(1)), QAdd(beat, QInt(1)))

\* Variant of the inner loop of matchNoteFast that keeps the first note of
\* the pitch it meets
RECURSIVE ScanBucket_firstFound(_, _, _, _, _, _)
ScanBucket_firstFound(notes, bucket, k, pitch, beat, foundIdx) ==
  IF k > Len(bucket) THEN foundIdx
  ELSE Bind(IF foundIdx = None /\ parseNote(notes[bucket[k]].note) = pitch
              THEN <<bucket[k]>> ELSE foundIdx,
            LAMBDA f : ScanBucket_firstFound(notes, bucket, k + 1, pitch, beat, f))

\* matchNoteFast, the inner loop over the indices of one bucket from its
\* k-th on; foundIdx is None or <<index>>
RECURSIVE ScanBucket(_, _, _, _, _, _)
ScanBucket(notes, bucket, k, pitch, beat, foundIdx) ==
  IF k > Len(bucket) THEN foundIdx
  ELSE LET songNoteIdx == bucket[k]
           note == notes[songNoteIdx]
           next ==
             IF foundIdx = <<songNoteIdx>> THEN foundIdx
             ELSE IF parseNote(note.note) # pitch THEN foundIdx
             ELSE IF foundIdx # None
               THEN IF QLt(QAbs(QSub(note.start, beat)),
                           QAbs(QSub(notes[foundIdx[1]].start, beat)))
                      THEN <<songNoteIdx>> ELSE foundIdx
             ELSE <<songNoteIdx>>
       IN  Bind(next, LAMBDA f : ScanBucket(notes, bucket, k + 1, pitch, beat, f))

\* matchNoteFast, the outer loop over the buckets bucketIdx..right-1
RECURSIVE ScanBuckets(_, _, _, _, _, _, _)
ScanBuckets(notes, buckets, bucketIdx, right, pitch, beat, foundIdx) ==
  IF bucketIdx >= right THEN foundIdx
  ELSE Bind(ScanBucket(notes, buckets[bucketIdx], 1, pitch, beat, foundIdx), LAMBDA f :
         ScanBuckets(notes, buckets, bucketIdx + 1, right, pitch, beat, f))

\* matchNoteFast(findNote, beat) without the wrap arguments, on the buckets
\* getBuckets returned
matchNoteFast(notes, buckets, findNote, beat) ==
  LET r == adjacentBuckets(beat)
  IN  ScanBuckets(notes, buckets, r[1], r[2], parseNote(findNote), beat, None)

\* ---------------------------------------------------------------------
\* Specification SpecBuckets: notes are pushed on a SongNoteList, the
\* cache is cleared or not, and matchNoteFast is called
\* ---------------------------------------------------------------------

\* the number of notes pushed
MaxBkNotes == 3

BkPitches == {Note("C", 0, 4), Note("D", 0, 4)}

\* starts in the first two buckets, on both sides of their border
BkStarts == {0, 7, 9}

\* a duration of 2 from beat 7 puts a note in two buckets
BkDurations == {1, 2}

\* the beats asked for
BkBeats == {0, 8, 10}

\* bk.buckets is None (the property is absent) or <<the buckets>>; stale
\* tells that the list was changed since the buckets were built; query is
\* None or the last matchNoteFast call with its result
InitBuckets ==
  /\ stack = <<>>
  /\ song = MultiTrackSong
  /\ nextId = 1
  /\ phase = "buckets"
  /\ ncmd = 0
  /\ last = [op |-> "start"]
  /\ emitted = <<>>
  /\ ksv = None
  /\ tr = None
  /\ ch = None
  /\ cx = None
  /\ gm = None
  /\ mstarts = <<>>
  /\ oc = None
  /\ bk = [notes |-> <<>>, buckets |-> None, stale |-> FALSE, query |-> None]

\* list.push(note): the buckets are left as they are
BkPush ==
  /\ bk # None
  /\ Len(bk.notes) < MaxBkNotes
  /\ \E n \in BkPitches, s \in BkStarts, d \in BkDurations :
       bk' = [bk EXCEPT !.notes = Append(@, SongNote(nextId, n, QInt(s), QInt(d))),
                        !.stale = bk.buckets # None,
                        !.query = None]
  /\ nextId' = nextId + 1
  /\ UNCHANGED <<stack, song, phase, ncmd, last, emitted, ksv, tr, ch, cx, gm, mstarts, oc>>

\* list.clearCache()
BkClearCache ==
  /\ bk # None
  /\ bk.buckets # None
  /\ bk' = [bk EXCEPT !.buckets = None, !.stale = FALSE, !.query = None]
  /\ UNCHANGED <<stack, song, nextId, phase, ncmd, last, emitted, ksv, tr, ch, cx, gm, mstarts, oc>>

\* list.matchNoteFast(findNote, beat): getBuckets builds the buckets when
\* the property is absent
BkMatch ==
  /\ bk # None
  /\ \E n \in BkPitches, b \in BkBeats :
       \E buckets \in {IF bk.buckets = None THEN buildBuckets(bk.notes)
                       ELSE bk.buckets[1]} :
         bk' = [bk EXCEPT
                  !.buckets = <<buckets>>,
                  !.query = <<[findNote |-> n, beat |-> QInt(b),
                              result |-> matchNoteFast(bk.notes, buckets, n, QInt(b))]>>]
  /\ UNCHANGED <<stack, song, nextId, phase, ncmd, last, emitted, ksv, tr, ch, cx, gm, mstarts, oc>>

NextBuckets == BkPush \/ BkClearCache \/ BkMatch

SpecBuckets == InitBuckets /\ [][NextBuckets]_vars

\* the indices listed in the buckets scanned around the beat
Scanned(buckets, beat) ==
  LET r == adjacentBuckets(beat)
  IN  UNION {{buckets[b][k] : k \in DOMAIN buckets[b]} :
               b \in {x \in BucketIdxs : r[1] <= x /\ x < r[2]}}

\* the distance of note idx from the beat
Distance(idx, beat) == QAbs(QSub(bk.notes[idx].start, beat))

\* matchNoteFast was called on buckets that agree with the list
FreshQuery == bk # None /\ bk.query # None /\ ~bk.stale

\* the index returned is of a note of the list with the pitch asked for,
\* and no note of that pitch in the buckets scanned starts strictly closer
ClosestOfScanned(q) ==
  q.result # None =>
    LET idx == q.result[1]
    IN  /\ idx \in DOMAIN bk.notes
        /\ parseNote(bk.notes[idx].note) = parseNote(q.findNote)
        /\ \A j \in Scanned(bk.buckets[1], q.beat) :
             parseNote(bk.notes[j].note) = parseNote(q.findNote)
               => ~QLt(Distance(j, q.beat), Distance(idx, q.beat))

\* C29: when clearCache() follows every change of the note list, every
\* index matchNoteFast(pitch, beat) returns is of a note of the list that
\* has the pitch asked for, and no other note of that pitch in the buckets
\* scanned around the beat starts strictly closer to the beat; the buckets
\* are built on first use from the list as it is then, and a change of
\* the list without clearCache() leaves them as they were.
C29_BucketMatch ==
  /\ FreshQuery => ClosestOfScanned(bk.query[1])
  /\ (bk # None /\ bk.buckets # None) =>
       (bk.stale <=> bk.buckets[1] # buildBuckets(bk.notes))

\* a match that replaced a note found earlier by a closer one of the same
\* pitch
C29_Witness ==
  /\ FreshQuery
  /\ bk.query[1].result # None
  /\ \E j \in Scanned(bk.buckets[1], bk.query[1].beat) :
       /\ j < bk.query[1].result[1]
       /\ parseNote(bk.notes[j].note) = parseNote(bk.query[1].findNote)
       /\ QLt(Distance(bk.query[1].result[1], bk.query[1].beat),
              Distance(j, bk.query[1].beat))

\* ---------------------------------------------------------------------
\* The default time signature
\* ---------------------------------------------------------------------

\* compile() returned the song
Compiled == phase = "done" /\ last.op = "finish"

\* the time-signature log as compileCommands left it has an entry at beat 0
RecordedAtZero ==
  \E i \in DOMAIN last.timeSignatures : last.timeSignatures[i][1] = QInt(0)

\* compile() put the default entry in front of the log
DefaultInserted ==
  song.timeSignatures = <<<<QInt(0), 4>>>> \o last.timeSignatures

\* C30: after compilation the first entry of the time-signature log is at
\* beat 0, and the default (0, 4) entry is put at the head exactly when no
\* time-signature change was recorded at position 0.
C30_DefaultTimeSignature ==
  Compiled =>
    /\ song.timeSignatures # <<>>
    /\ song.timeSignatures[1][1] = QInt(0)
    /\ DefaultInserted <=> ~RecordedAtZero
    /\ ~DefaultInserted => song.timeSignatures = last.timeSignatures

====
